---- MODULE Spec2Model ----
(***************************************************************************)
(* SU2GUI configuration parsing, validation and auto-fix engine.           *)
(*                                                                         *)
(* Python values are records [t, s, l]: t is the Python type, s the text   *)
(* of a scalar (a sequence of symbols, see below), l the elements of a     *)
(* list.  A Python str is a sequence of symbols; a symbol is either one    *)
(* structural character of the .cfg format (" ", "=", "%", "(", ...) or an *)
(* indivisible run of other characters (a word such as "RANS").  A dict is *)
(* a sequence of [k, v] entries with unique keys, in insertion order.      *)
(***************************************************************************)
EXTENDS Integers, Sequences, FiniteSets, TLC

VARIABLES
  construction,    \* how the validator was constructed: the arguments of
                   \* SU2ConfigValidator(...), the environment and the
                   \* installation it met, and whether the call raised
  schema_enabled,  \* SU2ConfigValidator.schema_enabled
  validator,       \* SU2ConfigValidator.validator: [loaded, schema]
  file,            \* the configuration file on disk: [kind, doc, lines, saved];
                   \* doc is the JSON content (for a saved case, the JSON
                   \* export written next to the .cfg), lines the .cfg text
  jsonData,        \* the working document of the application (state.jsonData)
  app,             \* the rest of the application state: [case_name,
                   \* BCDictList, wall_function, config_desc, counter,
                   \* solver_running]
  result,          \* what validate_config_file returned for the file as it is
  parsed,          \* what a reader of .cfg files returned for the file as it is
  given,           \* the mapping as it was when handed to apply_auto_fixes
  config_data,     \* that same mapping of the caller after the call
  fixed,           \* what the last apply_auto_fixes call returned
  calls,           \* successive apply_auto_fixes calls made on the document
  parser,          \* a value token and what each parser returned for it:
                   \* [token, single, config, value]
  threads          \* the validate_config_file calls in flight on the one
                   \* validator, each with its locals and its position

vars ==
  <<construction, schema_enabled, validator, file, jsonData, app, result, parsed, given, config_data,
    fixed, calls, parser, threads>>

----------------------------------------------------------------------------
(* Python values *)

S(w) == <<w>>

Str(s) == [t |-> "str", s |-> s, l |-> <<>>]
PyInt(s) == [t |-> "int", s |-> s, l |-> <<>>]
PyFloat(s) == [t |-> "float", s |-> s, l |-> <<>>]
PyBool(b) == [t |-> "bool", s |-> IF b THEN S("True") ELSE S("False"), l |-> <<>>]
PyNone == [t |-> "none", s |-> S("None"), l |-> <<>>]
PyList(l) == [t |-> "list", s |-> <<>>, l |-> l]

W(w) == Str(S(w))

isinstance(v, t) == v.t = t

IsNumeric(v) == v.t \in {"bool", "int", "float"}

\* The number a numeric value stands for, as text: True is 1, False is 0.
NumText(v) ==
  IF v.t = "bool" THEN (IF v = PyBool(TRUE) THEN S("1") ELSE S("0"))
  ELSE IF v.t = "float" /\ v.s = S("1.0") THEN S("1")
  ELSE IF v.t = "float" /\ v.s = S("0.0") THEN S("0")
  ELSE v.s

\* Python ==: numbers compare by value across bool, int and float.
PyEq(a, b) ==
  IF IsNumeric(a) /\ IsNumeric(b) THEN NumText(a) = NumText(b) ELSE a = b

\* Python `x in [...]`
PyIn(x, xs) == \E i \in 1..Len(xs) : PyEq(x, xs[i])

\* Python truth value
bool(v) ==
  CASE v.t = "str" -> v.s # <<>>
    [] v.t = "list" -> v.l # <<>>
    [] v.t = "none" -> FALSE
    [] v.t = "bool" -> v = PyBool(TRUE)
    [] OTHER -> NumText(v) # S("0")

\* len() is defined for str and list only; anything else raises TypeError.
HasLen(v) == v.t \in {"str", "list"}

Upper(w) ==
  CASE w \in {"yes", "Yes"} -> "YES"
    [] w \in {"no", "No"} -> "NO"
    [] w \in {"True", "true"} -> "TRUE"
    [] w \in {"False", "false"} -> "FALSE"
    [] w \in {"on", "On"} -> "ON"
    [] w \in {"off", "Off"} -> "OFF"
    [] w = "None" -> "NONE"
    [] w = "none" -> "NONE"
    [] OTHER -> w

Lower(w) ==
  CASE w = "NONE" -> "none"
    [] w = "None" -> "none"
    [] w = "YES" -> "yes"
    [] w = "NO" -> "no"
    [] OTHER -> w

upper(s) == [i \in 1..Len(s) |-> Upper(s[i])]
lower(s) == [i \in 1..Len(s) |-> Lower(s[i])]

----------------------------------------------------------------------------
(* Python dict *)

Keys(d) == {d[i].k : i \in 1..Len(d)}
Has(d, k) == k \in Keys(d)
Index(d, k) == CHOOSE i \in 1..Len(d) : d[i].k = k
Get(d, k, default) == IF Has(d, k) THEN d[Index(d, k)].v ELSE default
Put(d, k, v) ==
  IF Has(d, k) THEN [d EXCEPT ![Index(d, k)].v = v]
  ELSE Append(d, [k |-> k, v |-> v])
Pop(d, k) == SelectSeq(d, LAMBDA e : e.k # k)
Items(d) == {d[i] : i \in 1..Len(d)}
\* dict equality does not depend on insertion order
DictEq(a, b) == Items(a) = Items(b)

----------------------------------------------------------------------------
(* Semantic rule engine *)

EmptyStr == Str(<<>>)
EmptyList == PyList(<<>>)

Key(w) == S(w)

Error(type, path) == [type |-> type, path |-> path, ctx |-> <<>>]
CountError(type, path, expected, actual) ==
  [type |-> type, path |-> path, ctx |-> <<expected, actual>>]

Ok(errors) == [raised |-> FALSE, errors |-> errors]
Raised == [raised |-> TRUE, errors |-> <<>>]

IsMarkerEntry(el) ==
  \/ isinstance(el, "str")
  \/ isinstance(el, "list") /\ el.l # <<>> /\ isinstance(el.l[1], "str")

RECURSIVE CountEntries(_)
CountEntries(l) ==
  IF l = <<>> THEN 0
  ELSE (IF IsMarkerEntry(Head(l)) THEN 1 ELSE 0) + CountEntries(Tail(l))

_count_markers_in_list(marker_list) ==
  IF ~isinstance(marker_list, "list") THEN 0 ELSE CountEntries(marker_list.l)

IncSolvers == <<W("INC_EULER"), W("INC_NAVIER_STOKES"), W("INC_RANS")>>
EulerSolvers == <<W("EULER"), W("INC_EULER"), W("FEM_EULER"), W("NEMO_EULER")>>

\* an INC_INLET_TYPE given as one string taken for no entry at all
validate_inlet_consistency_list_only(d) ==
  LET solver == Get(d, Key("SOLVER"), EmptyStr)
      marker_inlet == Get(d, Key("MARKER_INLET"), EmptyList)
      raw == Get(d, Key("INC_INLET_TYPE"), EmptyList)
      inc_inlet_type == IF ~isinstance(raw, "list") THEN <<>> ELSE raw.l
      inlet_count ==
        IF isinstance(marker_inlet, "list") THEN _count_markers_in_list(marker_inlet) ELSE 0
  IN IF PyIn(solver, IncSolvers) /\ inlet_count # 0 /\ Len(inc_inlet_type) # inlet_count
     THEN <<CountError("inlet_count_mismatch", Key("INC_INLET_TYPE"),
                       inlet_count, Len(inc_inlet_type))>>
     ELSE <<>>

validate_inlet_consistency(d) ==
  LET solver == Get(d, Key("SOLVER"), EmptyStr)
      marker_inlet == Get(d, Key("MARKER_INLET"), EmptyList)
      raw == Get(d, Key("INC_INLET_TYPE"), EmptyList)
      inc_inlet_type ==
        IF isinstance(raw, "str") THEN <<raw>>
        ELSE IF ~isinstance(raw, "list") THEN <<>>
        ELSE raw.l
      inlet_count ==
        IF isinstance(marker_inlet, "list") THEN _count_markers_in_list(marker_inlet) ELSE 0
  IN IF PyIn(solver, IncSolvers) /\ inlet_count # 0 /\ Len(inc_inlet_type) # inlet_count
     THEN <<CountError("inlet_count_mismatch", Key("INC_INLET_TYPE"),
                       inlet_count, Len(inc_inlet_type))>>
     ELSE <<>>

TrueTokens == {S("YES"), S("TRUE"), S("ON")}

\* The normalised energy flag: "T", "F", or "N" for None.
EnergyNorm(inc_energy) ==
  IF isinstance(inc_energy, "str")
  THEN (IF upper(inc_energy.s) \in TrueTokens THEN "T" ELSE "F")
  ELSE IF inc_energy # PyNone THEN (IF bool(inc_energy) THEN "T" ELSE "F")
  ELSE "N"

EnergyFlag(d) ==
  Get(d, Key("INC_ENERGY_EQUATION"), Get(d, Key("ENERGY_EQUATION"), PyNone))

validate_solver_consistency(d) ==
  LET solver == Get(d, Key("SOLVER"), EmptyStr)
      density_model == Get(d, Key("INC_DENSITY_MODEL"), EmptyStr)
      inc_energy_norm == EnergyNorm(EnergyFlag(d))
  IN IF PyEq(solver, W("INC_EULER"))
        /\ (~PyEq(density_model, W("CONSTANT")) \/ inc_energy_norm # "F")
     THEN <<Error("inc_euler_consistency", Key("SOLVER"))>>
     ELSE <<>>

\* the RANS rule knowing NONE only
NoTurbRansNoneOnly == <<W("NONE")>>

NoTurbRans == <<W("NONE"), W("NO_TURB_MODEL"), PyNone, EmptyStr>>
NoTurb == <<W("NONE"), W("NO_TURB_MODEL")>>
NoTrans == <<W("NONE"), W("NO_TRANS_MODEL")>>

validate_turbulence_dependencies(d) ==
  LET solver == Get(d, Key("SOLVER"), EmptyStr)
      turb_model == Get(d, Key("KIND_TURB_MODEL"), W("NONE"))
      trans_model == Get(d, Key("KIND_TRANS_MODEL"), W("NONE"))
      rans ==
        IF PyIn(solver, <<W("RANS"), W("INC_RANS")>>) /\ PyIn(turb_model, NoTurbRans)
        THEN <<Error("rans_requires_turbulence", Key("KIND_TURB_MODEL"))>> ELSE <<>>
      trans ==
        IF ~PyIn(trans_model, NoTrans) /\ PyIn(turb_model, NoTurb)
        THEN <<Error("transition_requires_turbulence", Key("KIND_TRANS_MODEL"))>> ELSE <<>>
      lm ==
        IF PyEq(trans_model, W("LM"))
           /\ (\/ PyEq(Get(d, Key("AXISYMMETRIC"), W("NO")), W("YES"))
               \/ Get(d, Key("AXISYMMETRIC"), PyNone) = PyBool(TRUE))
        THEN <<Error("lm_axisymmetric_incompatible", Key("KIND_TRANS_MODEL"))>> ELSE <<>>
  IN rans \o trans \o lm

HeatMarkers ==
  <<Key("MARKER_HEATFLUX"), Key("MARKER_ISOTHERMAL"), Key("MARKER_HEATTRANSFER"),
    Key("MARKER_SMOLUCHOWSKI_MAXWELL"), Key("MARKER_CHT_INTERFACE")>>

\* The loop over heat_markers from position i on.  The error's diagnostic
\* count is len(markers), which raises TypeError for a value without a length;
\* the count itself is not kept in the modelled error.
RECURSIVE HeatMarkerLoop(_, _, _)
HeatMarkerLoop(d, i, errors) ==
  IF i > Len(HeatMarkers) THEN Ok(errors)
  ELSE LET markers == Get(d, HeatMarkers[i], EmptyList)
       IN IF ~bool(markers) THEN HeatMarkerLoop(d, i + 1, errors)
          ELSE IF ~HasLen(markers) THEN Raised
          ELSE HeatMarkerLoop(d, i + 1,
                 Append(errors, Error("euler_heat_marker_incompatible", HeatMarkers[i])))

validate_marker_compatibility(d) ==
  LET solver == Get(d, Key("SOLVER"), EmptyStr)
  IN IF PyIn(solver, EulerSolvers) THEN HeatMarkerLoop(d, 1, <<>>) ELSE Ok(<<>>)

\* a runner that stops at the first rule group that reports something
perform_custom_validations_first_failure(d) ==
  LET markers == validate_marker_compatibility(d)
  IN IF markers.raised THEN Raised
     ELSE IF validate_inlet_consistency(d) # <<>> THEN Ok(validate_inlet_consistency(d))
     ELSE IF validate_solver_consistency(d) # <<>> THEN Ok(validate_solver_consistency(d))
     ELSE IF validate_turbulence_dependencies(d) # <<>> THEN Ok(validate_turbulence_dependencies(d))
     ELSE Ok(markers.errors)

perform_custom_validations(d) ==
  LET markers == validate_marker_compatibility(d)
  IN IF markers.raised THEN Raised
     ELSE Ok(validate_inlet_consistency(d) \o validate_solver_consistency(d)
             \o validate_turbulence_dependencies(d) \o markers.errors)

FemWords == {"FEM_EULER", "FEM_NAVIER_STOKES", "FEM_LES"}
LesModels == <<W("IMPLICIT_LES"), W("SMAGORINSKY"), W("WALE"), W("VREMAN")>>

perform_guidance_warnings(d) ==
  LET solver == Get(d, Key("SOLVER"), EmptyStr)
      turb_model == Get(d, Key("KIND_TURB_MODEL"), W("NONE"))
      time_marching == Get(d, Key("TIME_MARCHING"), W("STEADY"))
      fem == isinstance(solver, "str") /\ solver.s # <<>> /\ solver.s[1] \in FemWords
      les == PyIn(turb_model, LesModels)
      hb == PyEq(time_marching, W("HARMONIC_BALANCE"))
  IN (IF fem /\ les THEN <<Error("fem_les_guidance", Key("KIND_TURB_MODEL"))>> ELSE <<>>)
     \o (IF hb /\ Get(d, Key("OUTPUT_WRT_FREQ"), PyNone) = PyNone
         THEN <<Error("hb_output_frequency_nudge", Key("OUTPUT_WRT_FREQ"))>> ELSE <<>>)
     \o (IF hb /\ ~Has(d, Key("HB_CONV_WINDOW"))
         THEN <<Error("hb_conv_window_nudge", Key("HB_CONV_WINDOW"))>> ELSE <<>>)

----------------------------------------------------------------------------
(* Auto-fix engine.                                                        *)
(* A call's state is [cfg, alias, arg, fixes, raised]: cfg is the working  *)
(* mapping, arg the caller's mapping as the call leaves it, alias whether  *)
(* cfg is the caller's own dict object, so that a write to cfg is a write  *)
(* to arg.  A list object is [val, shared]: shared says it is the object   *)
(* stored in the caller's mapping, so that mutating it in place shows      *)
(* there.                                                                  *)

Fix(path, msg) == [path |-> path, msg |-> msg]

SetItem(st, k, v) ==
  [st EXCEPT !.cfg = Put(@, k, v), !.arg = IF st.alias THEN Put(@, k, v) ELSE @]
PopItem(st, k) ==
  [st EXCEPT !.cfg = Pop(@, k), !.arg = IF st.alias THEN Pop(@, k) ELSE @]
AddFix(st, path, msg) == [st EXCEPT !.fixes = Append(@, Fix(path, msg))]

\* cfg = dict(config_data): a new dict holding the same value objects
dict_copy(d) == [cfg |-> d, alias |-> FALSE, arg |-> d, fixes |-> <<>>, raised |-> FALSE]

\* types used as it is, without list(types)
list_alias(obj) == obj

\* list(types): a new list object
list_copy(obj) == [val |-> obj.val, shared |-> FALSE]

\* types.extend(more), in place
ListExtend(st, key, obj, more) ==
  LET val == PyList(obj.val.l \o more)
  IN [st |-> IF obj.shared
             THEN [st EXCEPT !.arg = Put(@, key, val), !.cfg = Put(@, key, val)]
             ELSE st,
      obj |-> [obj EXCEPT !.val = val]]

\* an unset energy flag taken for a false one
IncEulerPassUnsetOk(st) ==
  LET solver == Get(st.cfg, Key("SOLVER"), EmptyStr)
      s1 == IF ~PyEq(Get(st.cfg, Key("INC_DENSITY_MODEL"), PyNone), W("CONSTANT"))
            THEN AddFix(SetItem(st, Key("INC_DENSITY_MODEL"), W("CONSTANT")),
                        Key("INC_DENSITY_MODEL"), "set_density_constant")
            ELSE st
      s2 == IF EnergyNorm(EnergyFlag(s1.cfg)) = "T"
            THEN AddFix(SetItem(s1, Key("INC_ENERGY_EQUATION"), PyBool(FALSE)),
                        Key("INC_ENERGY_EQUATION"), "set_energy_no")
            ELSE s1
  IN IF PyEq(solver, W("INC_EULER")) THEN s2 ELSE st

IncEulerPass(st) ==
  LET solver == Get(st.cfg, Key("SOLVER"), EmptyStr)
      s1 == IF ~PyEq(Get(st.cfg, Key("INC_DENSITY_MODEL"), PyNone), W("CONSTANT"))
            THEN AddFix(SetItem(st, Key("INC_DENSITY_MODEL"), W("CONSTANT")),
                        Key("INC_DENSITY_MODEL"), "set_density_constant")
            ELSE st
      s2 == IF EnergyNorm(EnergyFlag(s1.cfg)) # "F"
            THEN AddFix(SetItem(s1, Key("INC_ENERGY_EQUATION"), PyBool(FALSE)),
                        Key("INC_ENERGY_EQUATION"), "set_energy_no")
            ELSE s1
  IN IF PyEq(solver, W("INC_EULER")) THEN s2 ELSE st

\* the fix recorded and the transition model left as it is
TransitionPassRecordOnly(st) ==
  LET turb_model == Get(st.cfg, Key("KIND_TURB_MODEL"), W("NONE"))
      trans_model == Get(st.cfg, Key("KIND_TRANS_MODEL"), W("NONE"))
  IN IF ~PyIn(trans_model, NoTrans) /\ PyIn(turb_model, NoTurb)
     THEN AddFix(st, Key("KIND_TRANS_MODEL"), "disable_transition_no_turbulence")
     ELSE st

\* the transition model is switched to a token the guard does not know
TransitionPassOff(st) ==
  LET turb_model == Get(st.cfg, Key("KIND_TURB_MODEL"), W("NONE"))
      trans_model == Get(st.cfg, Key("KIND_TRANS_MODEL"), W("NONE"))
  IN IF ~PyIn(trans_model, NoTrans) /\ PyIn(turb_model, NoTurb)
     THEN AddFix(SetItem(st, Key("KIND_TRANS_MODEL"), W("OFF")),
                 Key("KIND_TRANS_MODEL"), "disable_transition_no_turbulence")
     ELSE st

TransitionPass(st) ==
  LET turb_model == Get(st.cfg, Key("KIND_TURB_MODEL"), W("NONE"))
      trans_model == Get(st.cfg, Key("KIND_TRANS_MODEL"), W("NONE"))
  IN IF ~PyIn(trans_model, NoTrans) /\ PyIn(turb_model, NoTurb)
     THEN AddFix(SetItem(st, Key("KIND_TRANS_MODEL"), W("NONE")),
                 Key("KIND_TRANS_MODEL"), "disable_transition_no_turbulence")
     ELSE st

\* the LM pass knowing the token YES only
LmPassTokenOnly(st) ==
  IF /\ PyIn(Get(st.cfg, Key("AXISYMMETRIC"), W("NO")), <<W("YES")>>)
     /\ PyEq(Get(st.cfg, Key("KIND_TRANS_MODEL"), PyNone), W("LM"))
  THEN AddFix(SetItem(st, Key("KIND_TRANS_MODEL"), W("NONE")),
              Key("KIND_TRANS_MODEL"), "disable_lm_axisymmetric")
  ELSE st

LmPass(st) ==
  IF /\ PyIn(Get(st.cfg, Key("AXISYMMETRIC"), W("NO")), <<W("YES"), PyBool(TRUE)>>)
     /\ PyEq(Get(st.cfg, Key("KIND_TRANS_MODEL"), PyNone), W("LM"))
  THEN AddFix(SetItem(st, Key("KIND_TRANS_MODEL"), W("NONE")),
              Key("KIND_TRANS_MODEL"), "disable_lm_axisymmetric")
  ELSE st

Repeat(x, n) == [i \in 1..n |-> x]

\* missing entries filled with the default type whatever the list holds
InletPassDefaultOnly(st) ==
  LET key == Key("INC_INLET_TYPE")
      solver == Get(st.cfg, Key("SOLVER"), EmptyStr)
      inlet_count == _count_markers_in_list(Get(st.cfg, Key("MARKER_INLET"), EmptyList))
      got == [val |-> Get(st.cfg, key, EmptyList), shared |-> Has(st.cfg, key)]
      wrapped == IF isinstance(got.val, "str")
                 THEN [val |-> PyList(<<got.val>>), shared |-> FALSE] ELSE got
      types == IF isinstance(wrapped.val, "list") THEN list_copy(wrapped)
               ELSE [val |-> EmptyList, shared |-> FALSE]
      n == Len(types.val.l)
      ext == ListExtend(st, key, types, Repeat(W("VELOCITY_INLET"), inlet_count - n))
  IN IF ~(PyIn(solver, IncSolvers) /\ inlet_count > 0) THEN st
     ELSE IF n < inlet_count
       THEN AddFix(SetItem(ext.st, key, ext.obj.val), key, "extend_inlet_types")
     ELSE IF n > inlet_count
       THEN AddFix(SetItem(st, key, PyList(SubSeq(types.val.l, 1, inlet_count))),
                   key, "trim_inlet_types")
     ELSE st

InletPass(st) ==
  LET key == Key("INC_INLET_TYPE")
      solver == Get(st.cfg, Key("SOLVER"), EmptyStr)
      inlet_count == _count_markers_in_list(Get(st.cfg, Key("MARKER_INLET"), EmptyList))
      got == [val |-> Get(st.cfg, key, EmptyList), shared |-> Has(st.cfg, key)]
      wrapped == IF isinstance(got.val, "str")
                 THEN [val |-> PyList(<<got.val>>), shared |-> FALSE] ELSE got
      types == IF isinstance(wrapped.val, "list") THEN list_copy(wrapped)
               ELSE [val |-> EmptyList, shared |-> FALSE]
      n == Len(types.val.l)
      default_type == IF n > 0 THEN types.val.l[n] ELSE W("VELOCITY_INLET")
      ext == ListExtend(st, key, types, Repeat(default_type, inlet_count - n))
  IN IF ~(PyIn(solver, IncSolvers) /\ inlet_count > 0) THEN st
     ELSE IF n < inlet_count
       THEN AddFix(SetItem(ext.st, key, ext.obj.val), key, "extend_inlet_types")
     ELSE IF n > inlet_count
       THEN AddFix(SetItem(st, key, PyList(SubSeq(types.val.l, 1, inlet_count))),
                   key, "trim_inlet_types")
     ELSE st

ThermalKeys ==
  <<Key("MARKER_HEATFLUX"), Key("MARKER_ISOTHERMAL"), Key("MARKER_HEATTRANSFER")>>

\* The loop over heat_marker_keys from position i on: [st, moved].
RECURSIVE ThermalLoop(_, _, _)
ThermalLoop(st, i, moved) ==
  IF i > Len(ThermalKeys) THEN [st |-> st, moved |-> moved]
  ELSE LET key == ThermalKeys[i]
           val == Get(st.cfg, key, PyNone)
       IN IF Has(st.cfg, key) /\ isinstance(val, "list") /\ val.l # <<>>
          THEN ThermalLoop(PopItem(st, key), i + 1,
                           moved \o SelectSeq(val.l, LAMBDA el : isinstance(el, "str")))
          ELSE ThermalLoop(st, i + 1, moved)

\* the collected names written to MARKER_HEATFLUX instead of MARKER_EULER
EulerMarkerPassWrongKey(st) ==
  LET solver == Get(st.cfg, Key("SOLVER"), EmptyStr)
      got == Get(st.cfg, Key("MARKER_EULER"), EmptyList)
      euler_list == IF isinstance(got, "str") THEN PyList(<<got>>) ELSE got
      loop == ThermalLoop(st, 1, <<>>)
  IN IF ~PyIn(solver, EulerSolvers) THEN st
     ELSE IF loop.moved = <<>> THEN loop.st
     ELSE IF ~isinstance(euler_list, "list") THEN [loop.st EXCEPT !.raised = TRUE]
     ELSE AddFix(SetItem(loop.st, Key("MARKER_HEATFLUX"), PyList(euler_list.l \o loop.moved)),
                 Key("MARKER_EULER"), "convert_thermal_markers")

EulerMarkerPass(st) ==
  LET solver == Get(st.cfg, Key("SOLVER"), EmptyStr)
      got == Get(st.cfg, Key("MARKER_EULER"), EmptyList)
      euler_list == IF isinstance(got, "str") THEN PyList(<<got>>) ELSE got
      loop == ThermalLoop(st, 1, <<>>)
  IN IF ~PyIn(solver, EulerSolvers) THEN st
     ELSE IF loop.moved = <<>> THEN loop.st
     ELSE IF ~isinstance(euler_list, "list") THEN [loop.st EXCEPT !.raised = TRUE]
     ELSE AddFix(SetItem(loop.st, Key("MARKER_EULER"), PyList(euler_list.l \o loop.moved)),
                 Key("MARKER_EULER"), "convert_thermal_markers")

\* [cfg, fixes, raised, arg]; when raised, no (cfg, fixes) pair is returned.
apply_auto_fixes(d) ==
  LET st == EulerMarkerPass(InletPass(LmPass(TransitionPass(IncEulerPass(dict_copy(d))))))
  IN IF st.raised THEN [cfg |-> <<>>, fixes |-> <<>>, raised |-> TRUE, arg |-> st.arg]
     ELSE [cfg |-> st.cfg, fixes |-> st.fixes, raised |-> FALSE, arg |-> st.arg]

----------------------------------------------------------------------------
(* Document parser: text -> document *)

RECURSIVE lstrip(_)
lstrip(s) == IF s # <<>> /\ Head(s) = " " THEN lstrip(Tail(s)) ELSE s
RECURSIVE rstrip(_)
rstrip(s) == IF s # <<>> /\ s[Len(s)] = " " THEN rstrip(SubSeq(s, 1, Len(s) - 1)) ELSE s
strip(s) == rstrip(lstrip(s))

Contains(s, c) == \E i \in 1..Len(s) : s[i] = c
\* position of the first c in s (s contains c)
IndexOf(s, c) == CHOOSE i \in 1..Len(s) : s[i] = c /\ \A j \in 1..(i - 1) : s[j] # c
startswith(s, c) == s # <<>> /\ s[1] = c
endswith(s, c) == s # <<>> /\ s[Len(s)] = c
\* s[1:-1]
Inner(s) == SubSeq(s, 2, Len(s) - 1)

DigitWords == {"0", "1", "2", "3", "5"}
FloatWords == {"1.5", "300.0", "1000.0"}

AllIn(s, ws) == \A i \in 1..Len(s) : s[i] \in ws
RECURSIVE StripZerosL(_)
StripZerosL(s) == IF s # <<>> /\ Head(s) = "0" THEN StripZerosL(Tail(s)) ELSE s
RECURSIVE StripZerosR(_)
StripZerosR(s) ==
  IF s # <<>> /\ s[Len(s)] = "0" THEN StripZerosR(SubSeq(s, 1, Len(s) - 1)) ELSE s

\* int(value) succeeds: the text is a run of digits
IsIntText(s) == s # <<>> /\ AllIn(s, DigitWords)
\* float(value) succeeds on a text with a '.': digits with one decimal point
IsFloatText(s) ==
  /\ AllIn(s, DigitWords \cup FloatWords)
  /\ Cardinality({i \in 1..Len(s) : s[i] \in FloatWords}) = 1
\* the number read: zeros before the integer part and after the fraction
\* do not change it
IntValue(s) == PyInt(IF StripZerosL(s) = <<>> THEN S("0") ELSE StripZerosL(s))
FloatValue(s) ==
  LET p == CHOOSE i \in 1..Len(s) : s[i] \in FloatWords
  IN PyFloat(StripZerosL(SubSeq(s, 1, p - 1)) \o <<s[p]>>
             \o StripZerosR(SubSeq(s, p + 1, Len(s))))

FalseTokens == {S("NO"), S("FALSE"), S("OFF")}

parse_single_value(text) ==
  LET value == strip(text)
  IN IF value = <<>> THEN EmptyStr
     ELSE IF upper(value) \in TrueTokens THEN PyBool(TRUE)
     ELSE IF upper(value) \in FalseTokens THEN PyBool(FALSE)
     ELSE IF IsIntText(value) THEN IntValue(value)
     ELSE IF IsFloatText(value) THEN FloatValue(value)
     ELSE IF \/ startswith(value, "\"") /\ endswith(value, "\"")
             \/ startswith(value, "'") /\ endswith(value, "'")
       THEN Str(Inner(value))
     ELSE Str(value)

\* The character loop of split_respecting_parentheses from position i on.
RECURSIVE SplitLoop(_, _, _, _, _)
SplitLoop(text, i, elements, current, paren_depth) ==
  IF i > Len(text)
  THEN (IF current # <<>> THEN Append(elements, current) ELSE elements)
  ELSE LET char == text[i]
       IN IF char = "(" THEN SplitLoop(text, i + 1, elements, Append(current, char), paren_depth + 1)
          ELSE IF char = ")" THEN SplitLoop(text, i + 1, elements, Append(current, char), paren_depth - 1)
          ELSE IF char = "," /\ paren_depth = 0 THEN SplitLoop(text, i + 1, Append(elements, current), <<>>, paren_depth)
          ELSE SplitLoop(text, i + 1, elements, Append(current, char), paren_depth)

split_respecting_parentheses(text) == SplitLoop(text, 1, <<>>, <<>>, 0)

parse_config_value(text) ==
  LET value == strip(text)
      inner == strip(Inner(value))
      elements == split_respecting_parentheses(inner)
  IN IF startswith(value, "(") /\ endswith(value, ")")
     THEN (IF inner = <<>> THEN EmptyList
           ELSE PyList([i \in 1..Len(elements) |-> parse_single_value(elements[i])]))
     ELSE parse_single_value(value)

\* json_validation.py: the character loop of parse_su2_list over inner + ","
\* from position i on; a comma at a negative depth neither splits nor is kept
RECURSIVE ElementLoop(_, _, _, _, _, _)
ElementLoop(text, i, elements, current, in_quotes, paren_depth) ==
  IF i > Len(text) THEN elements
  ELSE LET char == text[i]
           quotes == IF char \in {"\"", "'"} THEN ~in_quotes ELSE in_quotes
           depth == IF char = "(" THEN paren_depth + 1
                    ELSE IF char = ")" THEN paren_depth - 1 ELSE paren_depth
       IN IF char = "," /\ ~quotes /\ depth = 0
          THEN ElementLoop(text, i + 1,
                           IF strip(current) # <<>> THEN Append(elements, strip(current))
                           ELSE elements,
                           <<>>, quotes, depth)
          ELSE ElementLoop(text, i + 1, elements,
                           IF char # "," \/ quotes \/ depth > 0 THEN Append(current, char)
                           ELSE current,
                           quotes, depth)

RECURSIVE parse_value(_)
RECURSIVE parse_su2_list(_)

\* json_validation.py
parse_su2_list(text) ==
  LET inner == strip(Inner(strip(text)))
      elements == ElementLoop(inner \o <<",">>, 1, <<>>, <<>>, FALSE, 0)
  IN IF inner = <<>> THEN EmptyList
     ELSE PyList([i \in 1..Len(elements) |->
                    IF startswith(elements[i], "(") /\ endswith(elements[i], ")")
                    THEN parse_su2_list(elements[i]) ELSE parse_value(elements[i])])

\* json_validation.py
parse_value(text) ==
  LET value_str == strip(text)
  IN IF value_str = <<>> THEN EmptyStr
     ELSE IF upper(value_str) \in {S("YES"), S("TRUE")} THEN PyBool(TRUE)
     ELSE IF upper(value_str) \in {S("NO"), S("FALSE")} THEN PyBool(FALSE)
     ELSE IF startswith(value_str, "(") /\ endswith(value_str, ")")
       THEN parse_su2_list(value_str)
     ELSE IF IsIntText(value_str) THEN IntValue(value_str)
     ELSE IF IsFloatText(value_str) THEN FloatValue(value_str)
     ELSE Str(value_str)

\* The continuation loop: [i, line] when it ends.
RECURSIVE ContinuationLoop(_, _, _)
ContinuationLoop(lines, i, line) ==
  IF endswith(line, "\\") /\ i < Len(lines)
  THEN LET next_line == strip(lines[i + 1])
       IN IF startswith(next_line, "%") THEN [i |-> i + 1, line |-> line]
          ELSE ContinuationLoop(lines, i + 1,
                                SubSeq(line, 1, Len(line) - 1) \o <<" ">> \o next_line)
  ELSE [i |-> i, line |-> line]

\* line.split('=', 1)
SplitKeyValue(line) ==
  LET p == IndexOf(line, "=")
  IN [key |-> strip(SubSeq(line, 1, p - 1)), value |-> strip(SubSeq(line, p + 1, Len(line)))]

\* The line loop of convert_cfg_to_json from line i on: [raised, doc].
RECURSIVE LineLoop(_, _, _)
LineLoop(lines, i, config_dict) ==
  IF i > Len(lines) THEN [raised |-> FALSE, doc |-> config_dict]
  ELSE LET first == strip(lines[i])
           joined == ContinuationLoop(lines, i, first)
           line == IF Contains(joined.line, "%")
                   THEN strip(SubSeq(joined.line, 1, IndexOf(joined.line, "%") - 1))
                   ELSE joined.line
           kv == SplitKeyValue(line)
       IN IF first = <<>> \/ startswith(first, "%") THEN LineLoop(lines, i + 1, config_dict)
          ELSE IF ~Contains(joined.line, "=") THEN LineLoop(lines, joined.i + 1, config_dict)
          ELSE IF ~Contains(line, "=") THEN [raised |-> TRUE, doc |-> <<>>]
          ELSE LineLoop(lines, joined.i + 1,
                        Put(config_dict, kv.key, parse_config_value(kv.value)))

\* raised: the ValueError the function wraps every exception in
convert_cfg_to_json(lines) == LineLoop(lines, 1, <<>>)

\* json_validation.py: the line loop of cfg_to_json_dict from line i on; lines are
\* read one by one, there is no continuation
RECURSIVE DictLoop(_, _, _)
DictLoop(lines, i, config_dict) ==
  IF i > Len(lines) THEN config_dict
  ELSE LET first == strip(lines[i])
           line == IF Contains(first, "%") THEN strip(SubSeq(first, 1, IndexOf(first, "%") - 1))
                   ELSE first
           kv == SplitKeyValue(line)
       IN IF first = <<>> \/ startswith(first, "%") THEN DictLoop(lines, i + 1, config_dict)
          ELSE IF line = <<>> THEN DictLoop(lines, i + 1, config_dict)
          ELSE IF ~Contains(line, "=") THEN DictLoop(lines, i + 1, config_dict)
          ELSE IF kv.key = <<>> THEN DictLoop(lines, i + 1, config_dict)
          ELSE DictLoop(lines, i + 1, Put(config_dict, kv.key, parse_value(kv.value)))

cfg_to_json_dict(lines) == DictLoop(lines, 1, <<>>)

----------------------------------------------------------------------------
(* Document serializer: document -> text *)

RECURSIVE JoinWith(_, _)
JoinWith(parts, sep) ==
  IF parts = <<>> THEN <<>>
  ELSE IF Len(parts) = 1 THEN parts[1]
  ELSE parts[1] \o sep \o JoinWith(Tail(parts), sep)

\* repr() of a value, as it appears for an element of a nested list
RECURSIVE repr(_)
repr(v) ==
  IF isinstance(v, "list")
  THEN <<"[">> \o JoinWith([i \in 1..Len(v.l) |-> repr(v.l[i])], <<",", " ">>) \o <<"]">>
  ELSE IF isinstance(v, "str") THEN <<"'">> \o v.s \o <<"'">>
  ELSE v.s

\* str() of a value
str(v) == IF isinstance(v, "list") THEN repr(v) ELSE v.s

RECURSIVE Flatten(_)
Flatten(l) ==
  IF l = <<>> THEN <<>>
  ELSE (IF isinstance(Head(l), "list") THEN Head(l).l ELSE <<Head(l)>>) \o Flatten(Tail(l))

\* a list written without the enclosing parentheses
FormatValueNoParens(v) ==
  IF isinstance(v, "bool") THEN Str(IF v = PyBool(TRUE) THEN S("YES") ELSE S("NO"))
  ELSE IF isinstance(v, "list")
    THEN LET flat_list == Flatten(v.l)
         IN Str(JoinWith([i \in 1..Len(flat_list) |-> str(flat_list[i])], <<",", " ">>))
  ELSE v

\* the text written for a value, or the value None when the entry is skipped
FormatValue(v) ==
  IF isinstance(v, "bool") THEN Str(IF v = PyBool(TRUE) THEN S("YES") ELSE S("NO"))
  ELSE IF isinstance(v, "list")
    THEN LET flat_list == Flatten(v.l)
         IN Str(<<"(">> \o JoinWith([i \in 1..Len(flat_list) |-> str(flat_list[i])], <<",", " ">>)
                \o <<")">>)
  ELSE v

\* only a missing value is left out
SkippedNullOnly(value) == value = PyNone

Skipped(value) == value = PyNone \/ (isinstance(value, "str") /\ lower(value.s) = S("none"))

\* the description line written first: f"{state.config_desc}  "
HeaderLine(config_desc) == config_desc \o <<" ", " ">>

RECURSIVE EntryLines(_)
EntryLines(d) ==
  IF d = <<>> THEN <<>>
  ELSE LET value == FormatValue(Head(d).v)
       IN (IF Skipped(value) THEN <<>> ELSE <<Head(d).k \o <<"=", " ">> \o str(value)>>)
          \o EntryLines(Tail(d))

\* the lines written to the .cfg file for jsonData = d
CfgLines(config_desc, d) == <<HeaderLine(config_desc)>> \o EntryLines(d)

\* One boundary of state.BCDictList; the fields a subtype does not use are None.
BCDict(bcName, bc_subtype) ==
  [bcName |-> bcName, bc_subtype |-> bc_subtype, bc_temperature |-> PyNone,
   bc_heatflux |-> PyNone, bc_heattransfer |-> <<>>, bc_massflow |-> PyNone,
   bc_pressure |-> PyNone, bc_velocity_magnitude |-> PyNone, bc_velocity_normal |-> <<>>,
   bc_density |-> PyNone]

WallSubtypes == {"Temperature", "Heat flux", "Heat transfer", "Euler"}
InletSubtypes == {"Velocity inlet", "Pressure inlet", "Total Conditions", "Mass Flow"}

\* the marker built for one boundary
MarkerOf(bcdict) ==
  LET name == Str(bcdict.bcName)
      t == bcdict.bc_subtype
  IN PyList(
       CASE t = "Temperature" -> <<name, bcdict.bc_temperature>>
         [] t = "Heat flux" -> <<name, bcdict.bc_heatflux>>
         [] t = "Heat transfer" -> <<name>> \o bcdict.bc_heattransfer
         [] t = "Target mass flow rate" -> <<name, bcdict.bc_massflow>>
         [] t = "Pressure outlet" -> <<name, bcdict.bc_pressure>>
         [] t = "Velocity inlet" ->
              <<name, bcdict.bc_temperature, bcdict.bc_velocity_magnitude>>
              \o bcdict.bc_velocity_normal
         [] t \in {"Pressure inlet", "Total Conditions", "Supersonic Inlet"} ->
              <<name, bcdict.bc_temperature, bcdict.bc_pressure>> \o bcdict.bc_velocity_normal
         [] t = "Mass Flow" ->
              <<name, bcdict.bc_density, bcdict.bc_velocity_magnitude>>
              \o bcdict.bc_velocity_normal
         [] OTHER -> <<name>>)

\* the boundaries with a subtype in ts, in the order of the list
Chosen(bcs, ts) == SelectSeq(bcs, LAMBDA bcdict : bcdict.bc_subtype \in ts)

RECURSIVE PutAll(_, _)
PutAll(d, entries) ==
  IF entries = <<>> THEN d
  ELSE PutAll(Put(d, Head(entries).k, Head(entries).v), Tail(entries))

\* state.jsonData after createjsonMarkers
createjsonMarkers(d, BCDictList, wall_function) ==
  LET M(ts) == LET c == Chosen(BCDictList, ts)
               IN PyList([i \in 1..Len(c) |-> MarkerOf(c[i])])
      marker_wall_functions ==
        LET c == Chosen(BCDictList, WallSubtypes)
        IN PyList([i \in 1..Len(c) |->
                     PyList(<<Str(c[i].bcName), W("STANDARD_WALL_FUNCTION")>>)])
      marker_inc_outlet_type ==
        LET c == Chosen(BCDictList, {"Target mass flow rate", "Pressure outlet"})
        IN PyList([i \in 1..Len(c) |->
                     IF c[i].bc_subtype = "Target mass flow rate"
                     THEN W("MASS_FLOW_OUTLET") ELSE W("PRESSURE_OUTLET")])
      marker_inc_inlet_type ==
        LET c == Chosen(BCDictList, {"Velocity inlet", "Pressure inlet"})
        IN PyList([i \in 1..Len(c) |->
                     IF c[i].bc_subtype = "Velocity inlet"
                     THEN W("VELOCITY_INLET") ELSE W("PRESSURE_INLET")])
      marker_inlet_type ==
        LET c == Chosen(BCDictList, {"Total Conditions", "Mass Flow"})
        IN PyList([i \in 1..Len(c) |->
                     IF c[i].bc_subtype = "Total Conditions"
                     THEN W("TOTAL_CONDITIONS") ELSE W("MASS_FLOW")])
      E(k, v) == [k |-> Key(k), v |-> v]
      all ==
        PutAll(d,
          << E("MARKER_ISOTHERMAL", M({"Temperature"})),
             E("MARKER_HEATFLUX", M({"Heat flux"})),
             E("MARKER_HEATTRANSFER", M({"Heat transfer"})),
             E("MARKER_EULER", M({"Euler"})) >>
          \o (IF wall_function THEN <<E("MARKER_WALL_FUNCTIONS", marker_wall_functions)>>
              ELSE <<>>)
          \o << E("MARKER_OUTLET", M({"Target mass flow rate", "Pressure outlet"})),
                E("INC_OUTLET_TYPE", marker_inc_outlet_type),
                E("MARKER_SYM", M({"Symmetry"})),
                E("MARKER_FAR", M({"Far-field"})),
                E("MARKER_INLET", M(InletSubtypes)),
                E("INC_INLET_TYPE", marker_inc_inlet_type),
                E("INLET_TYPE", marker_inlet_type),
                E("MARKER_SUPERSONIC_INLET", M({"Supersonic Inlet"})),
                E("MARKER_SUPERSONIC_OUTLET", M({"Supersonic Outlet"})) >>)
  IN SelectSeq(all, LAMBDA e : e.v # EmptyList)

\* save_json_cfg_file: the application state and the files after the call,
\* [app, jsonData, file]
save_json_cfg_file(a, d, f) ==
  IF a.case_name = ""
  THEN [app |-> a, jsonData |-> d, file |-> f]
  ELSE LET myDict == createjsonMarkers(d, a.BCDictList, a.wall_function)
       IN [app |-> [a EXCEPT !.counter = a.counter + 1],
           jsonData |-> myDict,
           file |-> [kind |-> "cfg", doc |-> myDict, lines |-> CfgLines(a.config_desc, myDict),
                     saved |-> TRUE]]

----------------------------------------------------------------------------
(* Validator construction and the schema *)

\* A schema is a sequence of rules [kind, key, t]: "required" wants the key
\* present, "type" wants the value under the key, when present, of type t.
SchemaRule(kind, key, t) == [kind |-> kind, key |-> key, t |-> t]

NoValidator == [loaded |-> FALSE, schema |-> <<>>]
Draft7Validator(schema) == [loaded |-> TRUE, schema |-> schema]

\* self.validator.iter_errors(config_data), one issue per violated rule
RECURSIVE iter_errors(_, _)
iter_errors(schema, d) ==
  IF schema = <<>> THEN <<>>
  ELSE LET rule == Head(schema)
           bad == IF rule.kind = "required" THEN ~Has(d, rule.key)
                  ELSE Has(d, rule.key) /\ Get(d, rule.key, PyNone).t # rule.t
       IN (IF bad THEN <<Error("schema_violation",
                                IF rule.kind = "required" THEN <<>> ELSE rule.key)>>
           ELSE <<>>) \o iter_errors(Tail(schema), d)

EnvEnable == {"1", "true", "yes", "on"}

\* open, json.load and Draft7Validator on the schema file; json.load raises on
\* a file that is not JSON
LoadSchema(enabled, content) ==
  IF ~content.valid
  THEN [raised |-> TRUE, schema_enabled |-> enabled, validator |-> NoValidator]
  ELSE [raised |-> FALSE, schema_enabled |-> enabled,
        validator |-> Draft7Validator(content.schema)]

\* the constructor without the step that enables the schema for a file it found
InitTentativeOnly(schema_path, enable_schema, env_flag, default_exists, given_exists, content, available) ==
  LET enabled == IF enable_schema # "None" THEN enable_schema = "True"
                 ELSE env_flag \in EnvEnable
      exists == IF schema_path = "None" THEN default_exists ELSE given_exists
      body == IF enabled /\ available /\ exists
              THEN LoadSchema(enabled, content)
              ELSE [raised |-> FALSE, schema_enabled |-> enabled, validator |-> NoValidator]
  IN IF body.raised
     THEN [raised |-> FALSE, schema_enabled |-> FALSE, validator |-> NoValidator]
     ELSE body

\* schema_path: "None" or "given"; enable_schema: "None", "True" or "False";
\* env_flag: the lowered value of SU2GUI_STRICT_SCHEMA; exists: the schema
\* file resolved from schema_path is there; content: [valid, schema], whether
\* the file parses as JSON and the schema it holds; available: jsonschema is
\* installed.
__init__(schema_path, enable_schema, env_flag, default_exists, given_exists, content, available) ==
  LET tentative == IF enable_schema # "None" THEN enable_schema = "True"
                   ELSE env_flag \in EnvEnable
      exists == IF schema_path = "None" THEN default_exists ELSE given_exists
      enabled == IF exists /\ available /\ enable_schema = "None" /\ env_flag = ""
                 THEN TRUE ELSE tentative
      body == IF enabled /\ available /\ exists
              THEN LoadSchema(enabled, content)
              ELSE [raised |-> FALSE, schema_enabled |-> enabled, validator |-> NoValidator]
  IN IF body.raised
     THEN [raised |-> FALSE, schema_enabled |-> FALSE, validator |-> NoValidator]
     ELSE body

----------------------------------------------------------------------------
(* Validation orchestrator *)

ProcessingError ==
  [valid |-> FALSE, errors |-> <<Error("processing_error", <<>>)>>, warnings |-> <<>>,
   config_data |-> <<>>, has_config_data |-> FALSE, schema_errors |-> 0,
   custom_errors |-> 0, applied_fixes |-> <<>>]

\* the file as loaded: [raised, doc]
LoadConfig(f) ==
  IF f.kind \in {"json", "json_list"} THEN [raised |-> FALSE, doc |-> f.doc]
  ELSE IF f.kind = "cfg" THEN convert_cfg_to_json(f.lines)
  ELSE [raised |-> TRUE, doc |-> <<>>]

\* valid decided by the semantic errors alone
AssembleCustomOnly(validation_errors, custom_errors, guidance_warnings, d, applied_fixes) ==
  LET all_errors == validation_errors \o custom_errors
  IN [valid |-> Len(custom_errors) = 0, errors |-> all_errors, warnings |-> guidance_warnings,
      config_data |-> d, has_config_data |-> TRUE,
      schema_errors |-> Len(validation_errors), custom_errors |-> Len(custom_errors),
      applied_fixes |-> applied_fixes]

\* the semantic errors reported only when the schema found nothing
AssembleShortCircuit(validation_errors, custom_errors, guidance_warnings, d, applied_fixes) ==
  LET all_errors == IF validation_errors # <<>> THEN validation_errors
                    ELSE validation_errors \o custom_errors
  IN [valid |-> Len(all_errors) = 0, errors |-> all_errors, warnings |-> guidance_warnings,
      config_data |-> d, has_config_data |-> TRUE,
      schema_errors |-> Len(validation_errors), custom_errors |-> Len(custom_errors),
      applied_fixes |-> applied_fixes]

Assemble(validation_errors, custom_errors, guidance_warnings, d, applied_fixes) ==
  LET all_errors == validation_errors \o custom_errors
  IN [valid |-> Len(all_errors) = 0, errors |-> all_errors, warnings |-> guidance_warnings,
      config_data |-> d, has_config_data |-> TRUE,
      schema_errors |-> Len(validation_errors), custom_errors |-> Len(custom_errors),
      applied_fixes |-> applied_fixes]

\* The steps of validate_config_file, last to first; a step hands what it
\* computed to the next one, and any exception ends in the except branch.

\* the guidance warnings dropped once fixes were applied
AfterRecheckNoWarnings(validation_errors, recheck, guidance_warnings, fix) ==
  IF recheck.raised THEN ProcessingError
  ELSE Assemble(validation_errors, recheck.errors,
                IF fix.fixes # <<>> THEN <<>> ELSE guidance_warnings, fix.cfg, fix.fixes)

\* after the second perform_custom_validations, on the fixed configuration
AfterRecheck(validation_errors, recheck, guidance_warnings, fix) ==
  IF recheck.raised THEN ProcessingError
  ELSE Assemble(validation_errors, recheck.errors, guidance_warnings, fix.cfg, fix.fixes)

\* after apply_auto_fixes
AfterFixes(validation_errors, guidance_warnings, fix) ==
  IF fix.raised THEN ProcessingError
  ELSE AfterRecheck(validation_errors, perform_custom_validations(fix.cfg), guidance_warnings,
                    fix)

\* the semantic errors of the parsed document reported again after the fixes
AfterChecksStale(validation_errors, custom, guidance_warnings, d, auto_fix) ==
  IF custom.raised THEN ProcessingError
  ELSE IF ~auto_fix THEN Assemble(validation_errors, custom.errors, guidance_warnings, d, <<>>)
  ELSE IF apply_auto_fixes(d).raised THEN ProcessingError
  ELSE Assemble(validation_errors, custom.errors, guidance_warnings, apply_auto_fixes(d).cfg,
                apply_auto_fixes(d).fixes)

\* after the schema pass, the semantic pass and the guidance pass
AfterChecks(validation_errors, custom, guidance_warnings, d, auto_fix) ==
  IF custom.raised THEN ProcessingError
  ELSE IF ~auto_fix THEN Assemble(validation_errors, custom.errors, guidance_warnings, d, <<>>)
  ELSE AfterFixes(validation_errors, guidance_warnings, apply_auto_fixes(d))

\* after the file is loaded
AfterLoad(enabled, v, kind, loaded, auto_fix) ==
  IF loaded.raised \/ kind = "json_list" THEN ProcessingError
  ELSE AfterChecks(IF enabled /\ v.loaded THEN iter_errors(v.schema, loaded.doc) ELSE <<>>,
                   perform_custom_validations(loaded.doc),
                   perform_guidance_warnings(loaded.doc), loaded.doc, auto_fix)

validate_config_file(enabled, v, f, auto_fix) ==
  AfterLoad(enabled, v, f.kind, LoadConfig(f), auto_fix)

\* what validate_with_existing_workflow returns when it catches an exception
ValidationError ==
  [ProcessingError EXCEPT !.errors = <<Error("validation_error", <<>>)>>]

\* dict.update
Update(d, other) == PutAll(d, other)

\* what validate_with_existing_workflow does with the validation result
AfterValidation(validation_result, d) ==
  IF validation_result.valid /\ validation_result.config_data # <<>>
  THEN [result |-> validation_result, jsonData |-> Update(d, validation_result.config_data)]
  ELSE [result |-> validation_result, jsonData |-> d]

\* validate_with_existing_workflow on the case's file: [result, jsonData].
\* Without a case name the path cannot be built and the exception is caught.
validate_with_existing_workflow(enabled, v, a, f, d) ==
  IF a.case_name = "" THEN [result |-> ValidationError, jsonData |-> d]
  ELSE AfterValidation(validate_config_file(enabled, v, f, FALSE), d)

----------------------------------------------------------------------------
(* Inputs *)

MaxEntries == 3   \* entries of a JSON configuration
MaxMarkers == 3   \* markers in a marker list
MaxCalls == 2     \* successive apply_auto_fixes calls

Marker(name) == PyList(<<W(name)>>)
MarkerWith(name, value) == PyList(<<W(name), PyFloat(S(value))>>)
InletNames == <<"inlet1", "inlet2", "inlet3", "inlet4">>
InletTypes == <<W("VELOCITY_INLET"), W("PRESSURE_INLET"), W("VELOCITY_INLET"),
                W("PRESSURE_INLET"), W("VELOCITY_INLET")>>

\* list-of-tuples form, n markers
InletMarkers(n) == PyList([i \in 1..n |-> Marker(InletNames[i])])
TypeList(n) == PyList(SubSeq(InletTypes, 1, n))

\* The keys a configuration may hold, in file order, with the values tried.
Candidates ==
  << [k |-> Key("SOLVER"),
      vs |-> {W("RANS"), W("INC_RANS"), W("EULER"), W("INC_EULER"),
              W("INC_NAVIER_STOKES"), W("FEM_EULER")}],
     [k |-> Key("KIND_TURB_MODEL"),
      vs |-> {W("NONE"), W("NO_TURB_MODEL"), W("SA"), W("WALE"), PyNone}],
     [k |-> Key("KIND_TRANS_MODEL"), vs |-> {W("LM"), W("NONE")}],
     [k |-> Key("AXISYMMETRIC"), vs |-> {PyBool(TRUE), W("YES"), PyInt(S("1"))}],
     [k |-> Key("INC_DENSITY_MODEL"), vs |-> {W("CONSTANT"), W("VARIABLE")}],
     [k |-> Key("INC_ENERGY_EQUATION"), vs |-> {PyBool(TRUE), PyBool(FALSE), W("NO")}],
     [k |-> Key("ENERGY_EQUATION"), vs |-> {PyBool(TRUE), PyBool(FALSE)}],
     [k |-> Key("MARKER_INLET"),
      vs |-> {InletMarkers(n) : n \in 1..MaxMarkers}
             \cup {PyList(<<W("inlet1"), PyFloat(S("300.0")), PyFloat(S("1.5"))>>), W("inlet1")}],
     [k |-> Key("INC_INLET_TYPE"),
      vs |-> {TypeList(n) : n \in 0..(MaxMarkers + 1)}
             \cup {W("VELOCITY_INLET"), PyInt(S("5"))}],
     [k |-> Key("MARKER_EULER"), vs |-> {PyList(<<W("euler1")>>), W("euler1"), PyInt(S("5"))}],
     [k |-> Key("MARKER_HEATFLUX"),
      vs |-> {PyList(<<W("wall1"), PyFloat(S("1000.0"))>>),
              PyList(<<MarkerWith("wall1", "1000.0")>>), W("NONE"), PyInt(S("5"))}],
     [k |-> Key("MARKER_ISOTHERMAL"), vs |-> {PyList(<<W("wall2"), PyFloat(S("300.0"))>>)}],
     [k |-> Key("MARKER_HEATTRANSFER"), vs |-> {PyList(<<MarkerWith("wall3", "1.5")>>)}],
     [k |-> Key("MARKER_CHT_INTERFACE"), vs |-> {PyList(<<W("cht1")>>)}],
     [k |-> Key("TIME_MARCHING"), vs |-> {W("HARMONIC_BALANCE")}],
     [k |-> Key("OUTPUT_WRT_FREQ"), vs |-> {PyInt(S("1"))}],
     [k |-> Key("HB_CONV_WINDOW"), vs |-> {PyInt(S("2"))}] >>

\* position of a key among the candidates
Rank(k) == CHOOSE i \in 1..Len(Candidates) : Candidates[i].k = k

\* the schema file of the installation
RepoSchema ==
  <<SchemaRule("required", Key("SOLVER"), "str"), SchemaRule("type", Key("MARKER_EULER"), "list")>>

\* a construction: the arguments, the environment and the installation
Arguments(schema_path, enable_schema, env_flag, default_exists, given_exists, content, available) ==
  [done |-> TRUE, raised |-> FALSE, schema_path |-> schema_path,
   enable_schema |-> enable_schema, env_flag |-> env_flag,
   default_exists |-> default_exists, given_exists |-> given_exists, content |-> content,
   available |-> available]
NotConstructed ==
  [Arguments("None", "None", "", FALSE, FALSE, [valid |-> FALSE, schema |-> <<>>], FALSE)
     EXCEPT !.done = FALSE]
New(a) ==
  __init__(a.schema_path, a.enable_schema, a.env_flag, a.default_exists, a.given_exists,
           a.content, a.available)
\* the constructions the validation runs start from: schema on and loaded,
\* schema asked for but no file, schema off, nothing asked and nothing found
Setups ==
  {Arguments("None", "None", "", TRUE, FALSE, [valid |-> TRUE, schema |-> RepoSchema], TRUE),
   Arguments("None", "True", "", FALSE, FALSE, [valid |-> TRUE, schema |-> RepoSchema], TRUE),
   Arguments("None", "False", "", TRUE, FALSE, [valid |-> TRUE, schema |-> RepoSchema], TRUE),
   Arguments("None", "None", "", FALSE, FALSE, [valid |-> TRUE, schema |-> RepoSchema], TRUE)}

\* the lowered values of SU2GUI_STRICT_SCHEMA tried, "" for an unset variable
EnvFlags == {"", "1", "true", "yes", "on", "0"}

Constructions ==
  {Arguments(schema_path, enable_schema, env_flag, default_exists, given_exists, content,
             available) :
     schema_path \in {"None", "given"}, enable_schema \in {"None", "True", "False"},
     env_flag \in EnvFlags, default_exists \in BOOLEAN, given_exists \in BOOLEAN,
     content \in {[valid |-> TRUE, schema |-> RepoSchema], [valid |-> FALSE, schema |-> <<>>]},
     available \in BOOLEAN}

Constructed == {New(a) : a \in Constructions}

JsonFile(d) == [kind |-> "json", doc |-> d, lines |-> <<>>, saved |-> FALSE]
Returned(r, auto_fix) == [called |-> TRUE, auto_fix |-> auto_fix, r |-> r]
NoResult == [called |-> FALSE, auto_fix |-> FALSE, r |-> [ProcessingError EXCEPT !.errors = <<>>]]
\* no token handed to a parser yet
NotParsed == [t |-> "unparsed", s |-> <<>>, l |-> <<>>]
NoToken == [token |-> <<>>, single |-> NotParsed, config |-> NotParsed, value |-> NotParsed]
NoFixed == [cfg |-> <<>>, fixes |-> <<>>, raised |-> FALSE, arg |-> <<>>]
NoParsed == [called |-> FALSE, by |-> "", raised |-> FALSE, doc |-> <<>>]
\* a thread that is not inside validate_config_file
NoCall ==
  [pc |-> "idle", file |-> JsonFile(<<>>), auto_fix |-> FALSE, loaded |-> [raised |-> FALSE, doc |-> <<>>],
   validation_errors |-> <<>>, custom |-> Ok(<<>>), guidance_warnings |-> <<>>, result |-> NoResult.r]
NumThreads == 2   \* threads calling the one validator
NoThreads == [t \in 1..NumThreads |-> NoCall]
\* a description that is a comment of the .cfg format
Comment == <<"%", " ", "a">>
\* the application before a case is created
NoCase ==
  [case_name |-> "", BCDictList |-> <<>>, wall_function |-> FALSE, config_desc |-> Comment,
   counter |-> 0, solver_running |-> FALSE]

----------------------------------------------------------------------------
(* The validator on JSON configurations *)

Init ==
  /\ \E a \in Setups :
       /\ construction = a
       /\ schema_enabled = New(a).schema_enabled
       /\ validator = New(a).validator
  /\ file = JsonFile(<<>>)
  /\ jsonData = <<>>
  /\ app = NoCase
  /\ result = NoResult
  /\ parsed = NoParsed
  /\ given = <<>>
  /\ config_data = <<>>
  /\ fixed = NoFixed
  /\ calls = 0
  /\ threads = NoThreads
  /\ parser = NoToken

Idle == result = NoResult /\ calls = 0

\* the configuration file gets one more entry
WriteEntry ==
  /\ Idle
  /\ file.kind = "json"
  /\ Len(file.doc) < MaxEntries
  /\ \E i \in 1..Len(Candidates) :
       /\ IF file.doc = <<>> THEN TRUE ELSE Rank(file.doc[Len(file.doc)].k) < i
       /\ \E v \in Candidates[i].vs :
            file' = JsonFile(Append(file.doc, [k |-> Candidates[i].k, v |-> v]))
  /\ UNCHANGED <<threads, parser, construction, schema_enabled, validator, jsonData, app, result, parsed, given, config_data,
               fixed, calls>>

\* the configuration file is removed, or replaced by a JSON file holding a list
ReplaceFile ==
  /\ Idle
  /\ file = JsonFile(<<>>)
  /\ \E kind \in {"missing", "json_list"} :
       file' = [kind |-> kind, doc |-> <<>>, lines |-> <<>>, saved |-> FALSE]
  /\ UNCHANGED <<threads, parser, construction, schema_enabled, validator, jsonData, app, result, parsed, given, config_data,
               fixed, calls>>

ValidateConfigFile ==
  /\ Idle
  /\ \E auto_fix \in BOOLEAN :
       result' = Returned(validate_config_file(schema_enabled, validator, file, auto_fix),
                          auto_fix)
  /\ UNCHANGED <<threads, parser, construction, schema_enabled, validator, file, jsonData, app, parsed, given, config_data,
               fixed, calls>>

\* apply_auto_fixes on the loaded configuration, then on what it returned
ApplyAutoFixes ==
  /\ result = NoResult
  /\ file.kind = "json"
  /\ calls < MaxCalls
  /\ ~fixed.raised
  /\ LET d == IF calls = 0 THEN file.doc ELSE fixed.cfg
         r == apply_auto_fixes(d)
     IN /\ given' = d
        /\ config_data' = r.arg
        /\ fixed' = r
  /\ calls' = calls + 1
  /\ UNCHANGED <<threads, parser, construction, schema_enabled, validator, file, jsonData, app, result, parsed>>

Next == WriteEntry \/ ReplaceFile \/ ValidateConfigFile \/ ApplyAutoFixes

Spec == Init /\ [][Next]_vars

----------------------------------------------------------------------------
(* The case's .cfg file: written from the working document, read back *)

MaxValueLen == 3     \* symbols after the prefix of a line of a .cfg text
MaxDocEntries == 2   \* entries of a working document
MaxSaves == 2        \* exports of the case

\* the symbols .cfg texts are made of
Alphabet == {" ", "%", "=", "(", ")", ",", "\"", "\\", "YES", "NONE", "1", "1.5", "a"}
Texts(n) == UNION {[1..m -> Alphabet] : m \in 0..n}
Prefixes == {<<>>, <<"K", "=">>, <<"=">>, <<"K", "%", "=">>}
Lines(n) == {p \o t : p \in Prefixes, t \in Texts(n)}
\* lines a second line may follow: a continuation, a comment, an entry, a blank
FirstLines ==
  {<<"K", "=", "a", "\\">>, <<"K", "=", "(", "a", ",", "\\">>, <<"%", " ", "a">>,
   <<"Y", "=", "1">>, <<>>}
CfgTexts ==
  {<<l>> : l \in Lines(MaxValueLen)}
  \cup {<<f, l>> : f \in FirstLines, l \in Lines(MaxValueLen - 1)}

\* the values of a working document
Values ==
  {W("a"), W("NONE"), W("none"), W("YES"), W("1"), Str(<<"a", " ", "a">>), EmptyStr, PyNone,
   PyBool(TRUE), PyBool(FALSE), PyInt(S("1")), PyFloat(S("1.5")), EmptyList,
   PyList(<<W("a")>>), PyList(<<W("a"), PyInt(S("1"))>>),
   PyList(<<PyBool(TRUE), PyFloat(S("1.5"))>>), PyList(<<EmptyStr>>),
   PyList(<<MarkerWith("wall1", "1000.0")>>)}
KeyNames == <<"X", "Y", "Z", "U", "V">>
Documents ==
  UNION {{[i \in 1..n |-> [k |-> Key(KeyNames[i]), v |-> vs[i]]] : vs \in [1..n -> Values]} :
           n \in 1..MaxDocEntries}

\* a case with its boundaries, wall functions on or off, and its description;
\* the boundaries tried are an isothermal wall and a velocity inlet
Case(BCDictList, wall_function, config_desc) ==
  [case_name |-> "case", BCDictList |-> BCDictList, wall_function |-> wall_function,
   config_desc |-> config_desc, counter |-> 0, solver_running |-> FALSE]
Boundaries ==
  << [BCDict(S("wall1"), "Temperature") EXCEPT !.bc_temperature = PyFloat(S("300.0"))],
     [BCDict(S("inlet1"), "Velocity inlet") EXCEPT
        !.bc_temperature = PyFloat(S("300.0")), !.bc_velocity_magnitude = PyFloat(S("1.5")),
        !.bc_velocity_normal = <<PyInt(S("1")), PyInt(S("0")), PyInt(S("0"))>>] >>
\* the description is a comment, or a text that reads as an entry
Sessions ==
  {NoCase, Case(<<>>, FALSE, Comment), Case(Boundaries, TRUE, Comment),
   Case(<<>>, FALSE, <<"Z", "=", "1">>)}

CfgFile(lines) == [kind |-> "cfg", doc |-> <<>>, lines |-> lines, saved |-> FALSE]
MissingFile == [kind |-> "missing", doc |-> <<>>, lines |-> <<>>, saved |-> FALSE]

\* A session starts on a document built in the application, the case not yet
\* exported, or on a case whose .cfg file was written by hand.
InitIO ==
  /\ \E a \in {Arguments("None", "False", "", TRUE, FALSE,
                          [valid |-> TRUE, schema |-> RepoSchema], TRUE)} :
       /\ construction = a
       /\ schema_enabled = New(a).schema_enabled
       /\ validator = New(a).validator
  /\ \/ app \in Sessions /\ jsonData \in Documents /\ file = MissingFile
     \/ /\ app = Case(<<>>, FALSE, Comment) /\ jsonData = <<>>
        /\ \E lines \in CfgTexts : file = CfgFile(lines)
  /\ result = NoResult
  /\ parsed = NoParsed
  /\ given = <<>>
  /\ config_data = <<>>
  /\ fixed = NoFixed
  /\ calls = 0
  /\ threads = NoThreads
  /\ parser = NoToken

\* the case is exported; what was read from the previous file is dropped
SaveJsonCfgFile ==
  /\ app.counter < MaxSaves
  /\ \E r \in {save_json_cfg_file(app, jsonData, file)} :
       app' = r.app /\ jsonData' = r.jsonData /\ file' = r.file
  /\ result' = NoResult
  /\ parsed' = NoParsed
  /\ UNCHANGED <<threads, parser, construction, schema_enabled, validator, given, config_data, fixed, calls>>

ConvertCfgToJson ==
  /\ file.kind = "cfg"
  /\ ~parsed.called
  /\ \E r \in {convert_cfg_to_json(file.lines)} :
       parsed' = [called |-> TRUE, by |-> "convert_cfg_to_json", raised |-> r.raised, doc |-> r.doc]
  /\ UNCHANGED <<threads, parser, construction, schema_enabled, validator, file, jsonData, app, result, given, config_data,
                 fixed, calls>>

\* the importer's reader on the same file
CfgToJsonDict ==
  /\ file.kind = "cfg"
  /\ ~parsed.called
  /\ \E r \in {cfg_to_json_dict(file.lines)} :
       parsed' = [called |-> TRUE, by |-> "cfg_to_json_dict", raised |-> FALSE, doc |-> r]
  /\ UNCHANGED <<threads, parser, construction, schema_enabled, validator, file, jsonData, app, result, given, config_data,
                 fixed, calls>>

ValidateWithExistingWorkflow ==
  /\ result = NoResult
  /\ \E r \in {validate_with_existing_workflow(schema_enabled, validator, app, file, jsonData)} :
       result' = Returned(r.result, FALSE) /\ jsonData' = r.jsonData
  /\ UNCHANGED <<threads, parser, construction, schema_enabled, validator, file, app, parsed, given, config_data, fixed,
                 calls>>

NextIO ==
  SaveJsonCfgFile \/ ConvertCfgToJson \/ CfgToJsonDict \/ ValidateWithExistingWorkflow \/ ValidateConfigFile

SpecIO == InitIO /\ [][NextIO]_vars

----------------------------------------------------------------------------
(* Construction of the validator *)

InitNew ==
  /\ construction = NotConstructed
  /\ schema_enabled = FALSE
  /\ validator = NoValidator
  /\ file = JsonFile(<<>>)
  /\ jsonData = <<>>
  /\ app = NoCase
  /\ result = NoResult
  /\ parsed = NoParsed
  /\ given = <<>>
  /\ config_data = <<>>
  /\ fixed = NoFixed
  /\ calls = 0
  /\ threads = NoThreads
  /\ parser = NoToken

\* SU2ConfigValidator(schema_path, enable_schema), in some environment
Construct ==
  /\ ~construction.done
  /\ \E a \in Constructions :
       /\ construction' = [a EXCEPT !.raised = New(a).raised]
       /\ schema_enabled' = New(a).schema_enabled
       /\ validator' = New(a).validator
  /\ UNCHANGED <<threads, parser, file, jsonData, app, result, parsed, given, config_data, fixed, calls>>

NextNew == Construct

SpecNew == InitNew /\ [][NextNew]_vars

----------------------------------------------------------------------------
(* The value parsers on one token *)

MaxListLen == 2   \* elements of a parenthesised group
MaxRawLen == 3    \* symbols of a token made of any symbols

\* the words a boolean may be written with, and some that are none
BoolWords ==
  {"YES", "yes", "Yes", "TRUE", "true", "True", "ON", "on", "On",
   "NO", "no", "No", "FALSE", "false", "False", "OFF", "off", "Off"}
OtherWords == {"a", "1", "1.5", "NONE", "0"}
Padded(w) == {<<w>>, <<" ", w>>, <<w, " ">>, <<" ", w, " ">>}
ScalarTokens == UNION {Padded(w) : w \in BoolWords \cup OtherWords}

\* the elements a group is made of: words, and a quoted text holding a comma
Atoms == {<<"a">>, <<"1">>, <<"YES">>, <<"\"", "a", ",", "b", "\"">>}
Separators == {<<",">>, <<",", " ">>}
Wrap(body) == <<"(">> \o body \o <<")">>
SeqsOf(set, n) == UNION {[1..m -> set] : m \in 0..n}
\* the groups of words and quoted texts
Groups ==
  {Wrap(JoinWith(es, sep)) : es \in SeqsOf(Atoms, MaxListLen), sep \in Separators}
\* the groups holding a group among their elements, or two groups
NestedGroups ==
  UNION {{Wrap(JoinWith([es EXCEPT ![i] = g], sep)) :
            i \in 1..Len(es), g \in Groups, sep \in Separators} :
           es \in SeqsOf(Atoms, MaxListLen)}
    \cup {Wrap(g \o <<",">> \o h) : g, h \in {g \in Groups : Len(g) <= 3}}
\* one level more, around the short nested groups
DeepGroups ==
  {Wrap(<<"a", ",", " ">> \o g) : g \in {g \in NestedGroups : Len(g) <= 5}}
RawTokens == SeqsOf({"(", ")", ",", " ", "\"", "a"}, MaxRawLen)
Tokens == ScalarTokens \cup Groups \cup NestedGroups \cup DeepGroups \cup RawTokens

InitParse ==
  /\ parser \in {[NoToken EXCEPT !.token = t] : t \in Tokens}
  /\ construction = NotConstructed
  /\ schema_enabled = FALSE
  /\ validator = NoValidator
  /\ file = JsonFile(<<>>)
  /\ jsonData = <<>>
  /\ app = NoCase
  /\ result = NoResult
  /\ parsed = NoParsed
  /\ given = <<>>
  /\ config_data = <<>>
  /\ fixed = NoFixed
  /\ calls = 0
  /\ threads = NoThreads

ParseSingleValue ==
  /\ parser.single = NotParsed
  /\ parser' = [parser EXCEPT !.single = parse_single_value(parser.token)]
  /\ UNCHANGED <<threads, construction, schema_enabled, validator, file, jsonData, app, result, parsed,
                 given, config_data, fixed, calls>>

ParseConfigValue ==
  /\ parser.config = NotParsed
  /\ parser' = [parser EXCEPT !.config = parse_config_value(parser.token)]
  /\ UNCHANGED <<threads, construction, schema_enabled, validator, file, jsonData, app, result, parsed,
                 given, config_data, fixed, calls>>

ParseValue ==
  /\ parser.value = NotParsed
  /\ parser' = [parser EXCEPT !.value = parse_value(parser.token)]
  /\ UNCHANGED <<threads, construction, schema_enabled, validator, file, jsonData, app, result, parsed,
                 given, config_data, fixed, calls>>

NextParse == ParseSingleValue \/ ParseConfigValue \/ ParseValue

SpecParse == InitParse /\ [][NextParse]_vars

----------------------------------------------------------------------------
(* Properties of the validator *)

Types(errors) == [i \in 1..Len(errors) |-> errors[i].type]
CountType(errors, type) == Cardinality({i \in 1..Len(errors) : errors[i].type = type})
PathCount(fixes, path) == Cardinality({i \in 1..Len(fixes) : fixes[i].path = path})
Semantic(errors) == SelectSeq(errors, LAMBDA e : e.type # "schema_violation")
Completed == result.called /\ result.r.has_config_data
Solver(d) == Get(d, Key("SOLVER"), EmptyStr)

\* C1: applying apply_auto_fixes to the document a first apply_auto_fixes
\* call returned produces no fix record and returns a document equal to the
\* one it was given.
C1_AutoFixIdempotent ==
  calls >= 2 => ~fixed.raised /\ fixed.fixes = <<>> /\ fixed.cfg = given

\* a second call made on a document the first call had changed
C1_Witness == calls = 2 /\ given # file.doc /\ ~fixed.raised

FixableKinds ==
  {"inc_euler_consistency", "transition_requires_turbulence", "lm_axisymmetric_incompatible",
   "inlet_count_mismatch", "euler_heat_marker_incompatible"}

\* C2: after validate_config_file with auto_fix, the errors returned hold no
\* error of a kind that has a corrective pass.
C2_NoFixableErrorLeft ==
  Completed /\ result.auto_fix =>
    \A i \in 1..Len(result.r.errors) : result.r.errors[i].type \notin FixableKinds

\* C3: apply_auto_fixes leaves the caller's mapping, nested lists included,
\* as it was before the call.
C3_CallerDocumentUntouched == calls >= 1 => config_data = given

\* a call that extended the inlet-type list the caller's mapping holds
C3_Witness ==
  /\ calls = 1
  /\ \E i \in 1..Len(fixed.fixes) : fixed.fixes[i].msg = "extend_inlet_types"
  /\ isinstance(Get(given, Key("INC_INLET_TYPE"), PyNone), "list")
  /\ Get(fixed.cfg, Key("INC_INLET_TYPE"), PyNone) # Get(given, Key("INC_INLET_TYPE"), PyNone)

\* C4: in every result of validate_config_file, valid is true exactly when
\* the errors list is empty, whatever the warnings.
C4_ValidIffNoErrors == result.called => (result.r.valid <=> result.r.errors = <<>>)

\* a valid result that carries warnings
C4_Witness == result.called /\ result.r.valid /\ result.r.warnings # <<>>

\* C6: apply_auto_fixes returns a (document, fixes) pair for every document.
C6_AutoFixNeverRaises == calls >= 1 => ~fixed.raised

\* C8: the semantic errors, the warnings, the applied fixes and the
\* returned document of a validation are those the same call gives on a
\* validator without schema.
C8_SchemaOptionalInvariance ==
  result.called =>
    LET r == result.r
        o == validate_config_file(FALSE, NoValidator, file, result.auto_fix)
    IN /\ Semantic(r.errors) = o.errors
       /\ r.custom_errors = o.custom_errors
       /\ r.warnings = o.warnings
       /\ r.applied_fixes = o.applied_fixes
       /\ r.config_data = o.config_data
       /\ r.has_config_data = o.has_config_data

\* a validation that reported a schema violation next to a semantic error
C8_Witness ==
  /\ Completed /\ schema_enabled /\ validator.loaded
  /\ result.r.schema_errors > 0 /\ result.r.custom_errors > 0

RansSolver(d) == Solver(d) \in {W("RANS"), W("INC_RANS")}
TurbUnset(d) == ~Has(d, Key("KIND_TURB_MODEL")) \/ Get(d, Key("KIND_TURB_MODEL"), PyNone) = PyNone

ReadsFalse(v) ==
  \/ v \in {PyBool(FALSE), PyInt(S("0")), PyFloat(S("0.0")), EmptyList}
  \/ isinstance(v, "str") /\ upper(v.s) \notin {S("YES"), S("TRUE"), S("ON")}
DensityOk(d) == Get(d, Key("INC_DENSITY_MODEL"), PyNone) = W("CONSTANT")
EnergyOk(d) ==
  IF Has(d, Key("INC_ENERGY_EQUATION")) THEN ReadsFalse(Get(d, Key("INC_ENERGY_EQUATION"), PyNone))
  ELSE Has(d, Key("ENERGY_EQUATION")) /\ ReadsFalse(Get(d, Key("ENERGY_EQUATION"), PyNone))
IncEulerFixed == calls = 1 /\ ~fixed.raised /\ Solver(given) = W("INC_EULER")

\* C10 as stated: after auto-fix of an INC_EULER document INC_DENSITY_MODEL
\* is CONSTANT and INC_ENERGY_EQUATION is false.
C10_EnergyKeyFalseAfterFix ==
  IncEulerFixed =>
    /\ Get(fixed.cfg, Key("INC_DENSITY_MODEL"), PyNone) = W("CONSTANT")
    /\ Get(fixed.cfg, Key("INC_ENERGY_EQUATION"), PyNone) = PyBool(FALSE)

\* C10: for SOLVER = INC_EULER validation reports one inc_euler_consistency
\* error exactly when INC_DENSITY_MODEL is not CONSTANT or the energy flag
\* (INC_ENERGY_EQUATION, else ENERGY_EQUATION) does not read as false; after
\* auto-fix INC_DENSITY_MODEL is CONSTANT and the energy flag reads as false,
\* INC_ENERGY_EQUATION being set to false when the flag was violated, with
\* one fix record per corrected key.
C10_IncEulerRuleAndFix ==
  /\ Completed /\ ~result.auto_fix /\ Solver(file.doc) = W("INC_EULER") =>
       CountType(result.r.errors, "inc_euler_consistency") =
         IF DensityOk(file.doc) /\ EnergyOk(file.doc) THEN 0 ELSE 1
  /\ IncEulerFixed =>
       /\ DensityOk(fixed.cfg) /\ EnergyOk(fixed.cfg)
       /\ ~EnergyOk(given) => Get(fixed.cfg, Key("INC_ENERGY_EQUATION"), PyNone) = PyBool(FALSE)
       /\ PathCount(fixed.fixes, Key("INC_DENSITY_MODEL")) = (IF DensityOk(given) THEN 0 ELSE 1)
       /\ PathCount(fixed.fixes, Key("INC_ENERGY_EQUATION")) = (IF EnergyOk(given) THEN 0 ELSE 1)

\* the fix of {SOLVER: INC_EULER, INC_DENSITY_MODEL: VARIABLE,
\* INC_ENERGY_EQUATION: true}, with its two fix records
C10_Witness ==
  /\ IncEulerFixed
  /\ given = <<[k |-> Key("SOLVER"), v |-> W("INC_EULER")],
               [k |-> Key("INC_DENSITY_MODEL"), v |-> W("VARIABLE")],
               [k |-> Key("INC_ENERGY_EQUATION"), v |-> PyBool(TRUE)]>>
  /\ Len(fixed.fixes) = 2

----------------------------------------------------------------------------
(* Properties of the .cfg file *)

\* C5: validate_config_file on a configuration file that exists and can be
\* read never returns a result whose errors hold a processing_error: neither
\* the parsing of a line nor the evaluation of a rule ends in one.
C5_NoProcessingErrorOnContent ==
  result.called /\ file.kind = "cfg" =>
    \A i \in 1..Len(result.r.errors) : result.r.errors[i].type # "processing_error"

ScalarTypes == {"str", "int", "float", "bool"}
\* a scalar, or a single-level list of scalars
Simple(v) ==
  \/ v.t \in ScalarTypes
  \/ v.t = "list" /\ \A i \in 1..Len(v.l) : v.l[i].t \in ScalarTypes
SimpleDoc(d) == \A i \in 1..Len(d) : Simple(d[i].v)

\* the .cfg file is the case's export, written under a description that is
\* a comment, and has been parsed since
ReadBack == file.saved /\ parsed.called /\ parsed.by = "convert_cfg_to_json" /\ startswith(app.config_desc, "%")

\* C7, as stated: parsing the .cfg text written for a document whose values
\* are scalars or single-level lists gives back a document equal to it.
C7_RoundTrip ==
  ReadBack /\ SimpleDoc(file.doc) => ~parsed.raised /\ DictEq(parsed.doc, file.doc)

\* characters the .cfg syntax gives a meaning to
Reserved == {"%", "(", ")", ",", "\"", "'", "\\"}
NoReserved(s) == \A i \in 1..Len(s) : s[i] \notin Reserved
\* a string the parser reads as the same string: not empty, no surrounding
\* white space, no reserved character, not a Boolean, none or numeric token
PlainStr(s) ==
  /\ s # <<>> /\ strip(s) = s /\ NoReserved(s)
  /\ upper(s) \notin TrueTokens \cup FalseTokens
  /\ lower(s) # S("none")
  /\ ~IsIntText(s) /\ ~IsFloatText(s)
PlainScalar(v) == v.t \in {"int", "float", "bool"} \/ (v.t = "str" /\ PlainStr(v.s))
Plain(v) ==
  \/ PlainScalar(v)
  \/ v.t = "list" /\ v.l # <<>> /\ \A i \in 1..Len(v.l) : PlainScalar(v.l[i])
PlainKey(k) == k # <<>> /\ strip(k) = k /\ NoReserved(k) /\ ~Contains(k, "=")
PlainDoc(d) == \A i \in 1..Len(d) : PlainKey(d[i].k) /\ Plain(d[i].v)

\* C7, amended: parsing the .cfg text written for a document gives back a
\* document equal to it when every key is a plain name and every value is a
\* Boolean, a number, a plain string or a non-empty single-level list of
\* those.
C7_RoundTripPlain ==
  ReadBack /\ PlainDoc(file.doc) => ~parsed.raised /\ DictEq(parsed.doc, file.doc)

\* a plain document with a Boolean and a list of two elements was written
\* and read back
C7_Witness ==
  /\ ReadBack /\ PlainDoc(file.doc)
  /\ \E i \in 1..Len(file.doc) : file.doc[i].v.t = "list" /\ Len(file.doc[i].v.l) = 2
  /\ \E i \in 1..Len(file.doc) : file.doc[i].v.t = "bool"

----------------------------------------------------------------------------
(* Properties of the rules and of the corrective passes *)

\* the validation of the file as it is, without auto-fix
Validated == Completed /\ ~result.auto_fix
IncSolver(d) == Solver(d) \in {W("INC_EULER"), W("INC_NAVIER_STOKES"), W("INC_RANS")}
\* the inlet markers of MARKER_INLET: its string tokens (flat form) and its
\* tuples headed by a string (list-of-tuples form)
MarkerCount(d) ==
  LET m == Get(d, Key("MARKER_INLET"), EmptyList)
  IN IF m.t = "list" THEN Cardinality({i \in 1..Len(m.l) : IsMarkerEntry(m.l[i])}) ELSE 0
\* the entries of INC_INLET_TYPE: a single string is one entry
TypeCount(d) ==
  LET t == Get(d, Key("INC_INLET_TYPE"), EmptyList)
  IN IF t.t = "list" THEN Len(t.l) ELSE IF t.t = "str" THEN 1 ELSE 0
InletErrors == SelectSeq(result.r.errors, LAMBDA e : e.type = "inlet_count_mismatch")

Applied == calls > 0 /\ ~fixed.raised
InletFixes == SelectSeq(fixed.fixes, LAMBDA f : f.path = Key("INC_INLET_TYPE"))
TypesOf(d) == Get(d, Key("INC_INLET_TYPE"), PyNone)
\* an incompressible document with n > 0 inlet markers and a type list of another length
InletMismatch(d) ==
  /\ IncSolver(d)
  /\ MarkerCount(d) > 0
  /\ TypesOf(d).t = "list"
  /\ Len(TypesOf(d).l) # MarkerCount(d)

\* C12: for an incompressible solver with n > 0 inlet markers and an INC_INLET_TYPE
\* list of length m # n, apply_auto_fixes returns a list of length n and one fix
\* record for it; m > n keeps the first n entries; m < n keeps the m entries and
\* adds copies of the last one, or VELOCITY_INLET when the list was empty.
C12_InletReconciliation ==
  Applied /\ InletMismatch(given) =>
    LET n == MarkerCount(given)
        old == TypesOf(given).l
        m == Len(old)
        new == TypesOf(fixed.cfg)
    IN /\ new.t = "list"
       /\ Len(new.l) = n
       /\ Len(InletFixes) = 1
       /\ \A i \in 1..n :
            new.l[i] = IF i <= m THEN old[i]
                       ELSE IF m > 0 THEN old[m] ELSE W("VELOCITY_INLET")

C12_WitnessExtend ==
  /\ Applied /\ InletMismatch(given)
  /\ MarkerCount(given) = 3
  /\ TypesOf(given) = PyList(<<W("VELOCITY_INLET"), W("PRESSURE_INLET")>>)
  /\ TypesOf(fixed.cfg) =
       PyList(<<W("VELOCITY_INLET"), W("PRESSURE_INLET"), W("PRESSURE_INLET")>>)
C12_WitnessTrim ==
  /\ Applied /\ InletMismatch(given)
  /\ MarkerCount(given) = 2
  /\ TypesOf(given) = TypeList(3)
  /\ TypesOf(fixed.cfg) = TypeList(2)
C12_WitnessEmpty ==
  /\ Applied /\ InletMismatch(given)
  /\ TypesOf(given) = EmptyList
  /\ TypesOf(fixed.cfg) = PyList(<<W("VELOCITY_INLET")>>)

EulerSolver(d) == PyIn(Solver(d), EulerSolvers)
\* the thermal-wall keys of d that hold a non-empty list
ThermalIn(d) ==
  {i \in 1..Len(ThermalKeys) :
     LET v == Get(d, ThermalKeys[i], PyNone) IN v.t = "list" /\ v.l # <<>>}
\* the marker names under a marker value: its strings, and the first string of its tuples
NamesUnder(v) ==
  {v.l[j] : j \in {j \in 1..Len(v.l) : v.l[j].t = "str"}}
    \cup {v.l[j].l[1] : j \in {j \in 1..Len(v.l) :
                                  v.l[j].t = "list" /\ IsMarkerEntry(v.l[j])}}
\* the entries of MARKER_EULER, a single string being one entry
EulerEntries(d) ==
  LET v == Get(d, Key("MARKER_EULER"), EmptyList)
  IN IF v.t = "list" THEN {v.l[j] : j \in 1..Len(v.l)} ELSE IF v.t = "str" THEN {v} ELSE {}

\* C13: for a solver of the Euler family, apply_auto_fixes removes every non-empty
\* thermal-wall key, every marker name listed under one (flat or list-of-tuples
\* form) is in MARKER_EULER afterwards, and the prior MARKER_EULER entries are kept.
C13_ThermalMarkersMoved ==
  Applied /\ EulerSolver(given) =>
    /\ \A i \in ThermalIn(given) :
         /\ ~Has(fixed.cfg, ThermalKeys[i])
         /\ NamesUnder(Get(given, ThermalKeys[i], PyNone)) \subseteq EulerEntries(fixed.cfg)
    /\ ThermalIn(given) # {} => EulerEntries(given) \subseteq EulerEntries(fixed.cfg)

Fixed == Completed /\ result.auto_fix
TransModel(d) == Get(d, Key("KIND_TRANS_MODEL"), PyNone)
\* KIND_TRANS_MODEL = LM with AXISYMMETRIC the boolean true or the token YES
LmAxisymmetric(d) ==
  /\ TransModel(d) = W("LM")
  /\ Get(d, Key("AXISYMMETRIC"), PyNone) \in {PyBool(TRUE), W("YES")}
LmErrors == SelectSeq(result.r.errors, LAMBDA e : e.type = "lm_axisymmetric_incompatible")

\* C14: for a document with KIND_TRANS_MODEL = LM and AXISYMMETRIC true (boolean
\* true or the token YES) validation reports exactly one lm_axisymmetric_incompatible
\* error, and none when either condition is absent; after auto-fix, alone or within
\* validation, KIND_TRANS_MODEL is NONE.
C14_LmAxisymmetricRuleAndFix ==
  /\ Validated => Len(LmErrors) = IF LmAxisymmetric(file.doc) THEN 1 ELSE 0
  /\ Applied /\ LmAxisymmetric(given) => TransModel(fixed.cfg) = W("NONE")
  /\ Fixed /\ LmAxisymmetric(file.doc) =>
       TransModel(result.r.config_data) = W("NONE") /\ LmErrors = <<>>

C14_Witness ==
  /\ Validated
  /\ LmAxisymmetric(file.doc)
  /\ Get(file.doc, Key("KIND_TURB_MODEL"), PyNone) = W("SA")
  /\ Get(file.doc, Key("AXISYMMETRIC"), PyNone) = W("YES")
  /\ Len(LmErrors) = 1
C14_WitnessFix ==
  /\ Applied
  /\ LmAxisymmetric(given)
  /\ Get(given, Key("KIND_TURB_MODEL"), PyNone) = W("SA")
  /\ TransModel(fixed.cfg) = W("NONE")
  /\ fixed.fixes = <<Fix(Key("KIND_TRANS_MODEL"), "disable_lm_axisymmetric")>>

\* the semantic rules report no error on d
NoSemanticError(d) ==
  LET custom == perform_custom_validations(d) IN ~custom.raised /\ custom.errors = <<>>

\* C15: on a document for which the semantic rules report no error, apply_auto_fixes
\* returns an empty fix list and a document equal to its input, and validation with
\* auto-fix of a fully valid file reports valid, no error and no fix.
C15_NoErrorNoFix ==
  /\ Applied /\ NoSemanticError(given) => fixed.fixes = <<>> /\ fixed.cfg = given
  /\ Fixed /\ NoSemanticError(file.doc) /\ result.r.schema_errors = 0 =>
       result.r.valid /\ result.r.errors = <<>> /\ result.r.applied_fixes = <<>>

----------------------------------------------------------------------------
(* Properties of the construction *)

\* C16: constructing the validator never raises, and whenever no schema validator
\* is loaded schema_enabled is false (schema_enabled implies a loaded validator).
C16_EnabledImpliesLoaded ==
  construction.done => ~construction.raised /\ (schema_enabled => validator.loaded)

\* the schema file the construction resolved is there
Found == IF construction.schema_path = "None" THEN construction.default_exists
         ELSE construction.given_exists
\* the schema file is read and is not JSON
LoadFails == Found /\ construction.available /\ ~construction.content.valid
\* nothing is set in the environment, and a schema file and jsonschema are there
AutoEnabled == construction.env_flag = "" /\ Found /\ construction.available

----------------------------------------------------------------------------
(* Properties of the value parsers *)

TrueWords == {"YES", "yes", "Yes", "TRUE", "true", "True", "ON", "on", "On"}
FalseWords == {"NO", "no", "No", "FALSE", "false", "False", "OFF", "off", "Off"}
\* the boolean the token spells once trimmed: "T", "F", or "N" for none
Spelled(token) ==
  IF Len(strip(token)) # 1 THEN "N"
  ELSE IF strip(token)[1] \in TrueWords THEN "T"
  ELSE IF strip(token)[1] \in FalseWords THEN "F" ELSE "N"
ReadsAs(v, b) ==
  \/ v = NotParsed
  \/ (b = "T" => v = PyBool(TRUE)) /\ (b = "F" => v = PyBool(FALSE))

\* C18: a token that, trimmed, is YES, TRUE or ON in any letter case is read as the
\* boolean true, and NO, FALSE or OFF as the boolean false, by parse_single_value
\* and by parse_value alike.
C18_BooleanTokens ==
  /\ ReadsAs(parser.single, Spelled(parser.token))
  /\ ReadsAs(parser.value, Spelled(parser.token))

\* the tokens that are groups of words, quoted texts and groups
WellFormed == Groups \cup NestedGroups \cup DeepGroups
QuoteCount(text) == Cardinality({i \in 1..Len(text) : text[i] = "\""})
\* v holds, at some depth, a group left as text or a piece of a quoted text
RECURSIVE LeftAsText(_)
LeftAsText(v) ==
  IF v.t = "list" THEN \E i \in 1..Len(v.l) : LeftAsText(v.l[i])
  ELSE /\ v.t = "str"
       /\ \/ startswith(v.s, "(") /\ endswith(v.s, ")")
          \/ QuoteCount(v.s) = 1
ReadAsList(token, v) ==
  \/ v = NotParsed
  \/ /\ v.t = "list"
     /\ ~LeftAsText(v)
     /\ strip(Inner(token)) = <<>> => v = EmptyList

\* C19: a parenthesised token is split only at the commas outside nested
\* parentheses and outside quotes and every element is parsed in turn, so that a
\* nested group is read as a list at any depth; an empty body gives an empty list.
C19_ListParsing ==
  parser.token \in WellFormed =>
    ReadAsList(parser.token, parser.config) /\ ReadAsList(parser.token, parser.value)

----------------------------------------------------------------------------
(* Properties of the serializer *)

\* a null, or the string none in some letter case
Omitted(v) == v.t = "none" \/ (v.t = "str" /\ v.s \in {S("none"), S("None"), S("NONE")})
\* the elements of a list with the lists among them opened once
RECURSIVE OneLevel(_)
OneLevel(l) ==
  IF l = <<>> THEN <<>>
  ELSE (IF Head(l).t = "list" THEN Head(l).l ELSE <<Head(l)>>) \o OneLevel(Tail(l))
\* the text an entry's value is written as
Shown(v) ==
  IF v.t = "bool" THEN (IF v = PyBool(TRUE) THEN S("YES") ELSE S("NO"))
  ELSE IF v.t = "list"
    THEN <<"(">> \o JoinWith([i \in 1..Len(OneLevel(v.l)) |-> str(OneLevel(v.l)[i])],
                               <<",", " ">>) \o <<")">>
  ELSE v.s
Kept(d) == SelectSeq(d, LAMBDA e : ~Omitted(e.v))

----------------------------------------------------------------------------
(* Properties of the orchestrator with auto_fix *)

\* the schema issues of d for the validator as constructed
SchemaIssues(d) ==
  IF schema_enabled /\ validator.loaded THEN iter_errors(validator.schema, d) ELSE <<>>

\* C22: with auto_fix the errors returned are the schema issues of the parsed document
\* followed by the semantic errors of the fixed document; schema_errors + custom_errors
\* is the length of errors; config_data is the fixed document (the schema pass is not
\* run again on it).
C22_ErrorComposition ==
  Fixed =>
    /\ result.r.config_data = apply_auto_fixes(file.doc).cfg
    /\ result.r.errors =
         SchemaIssues(file.doc) \o perform_custom_validations(result.r.config_data).errors
    /\ result.r.schema_errors = Len(SchemaIssues(file.doc))
    /\ result.r.schema_errors + result.r.custom_errors = Len(result.r.errors)
    /\ result.r.applied_fixes = apply_auto_fixes(file.doc).fixes

\* a schema issue of the parsed document that the fixed document no longer has, and a
\* semantic error the fixes removed
C22_Witness ==
  /\ Fixed
  /\ result.r.applied_fixes # <<>>
  /\ result.r.schema_errors = 1
  /\ SchemaIssues(result.r.config_data) = <<>>
  /\ perform_custom_validations(file.doc).errors # <<>>
  /\ result.r.custom_errors = 0

\* C23: with auto_fix, the warnings of the result are the guidance warnings of the
\* returned (fixed) document.
C23_WarningsOfFixedDocument ==
  Fixed => result.r.warnings = perform_guidance_warnings(result.r.config_data)

\* a fixed document that still draws a warning
C23_Witness ==
  /\ Fixed
  /\ result.r.applied_fixes # <<>>
  /\ result.r.config_data # file.doc
  /\ result.r.warnings # <<>>

----------------------------------------------------------------------------
(* Properties of the fix records *)

FixPaths == {fixed.fixes[i].path : i \in 1..Len(fixed.fixes)}
\* the keys the returned document holds with another value than the given one, or new
Written == {k \in Keys(fixed.cfg) : ~Has(given, k) \/ Get(given, k, PyNone) # Get(fixed.cfg, k, PyNone)}
Deleted == Keys(given) \ Keys(fixed.cfg)

\* C24: every change apply_auto_fixes makes is recorded: with an empty fix list the
\* returned document is the given one, every key set, trimmed or extended is the path
\* of a fix record, and keys are deleted only along with the record of the move.
C24_EveryChangeRecorded ==
  Applied =>
    /\ fixed.fixes = <<>> => fixed.cfg = given
    /\ Written \subseteq FixPaths
    /\ Deleted # {} => Key("MARKER_EULER") \in FixPaths

----------------------------------------------------------------------------
(* Properties of the rule runner *)

ToSet(s) == {s[i] : i \in 1..Len(s)}
\* the errors of the rules in a result: what follows the schema errors
CustomPart(r) == SubSeq(r.errors, r.schema_errors + 1, Len(r.errors))
RuleGroups(d) == <<validate_inlet_consistency(d), validate_solver_consistency(d), validate_turbulence_dependencies(d), validate_marker_compatibility(d).errors>>

\* C27: the four rule groups all run on every call, none silencing another: the
\* errors of the rules in a result are the union of what each rule group reports on
\* the document alone, and as many as the groups report together.
C27_RuleIndependence ==
  Validated =>
    /\ ToSet(CustomPart(result.r)) = UNION {ToSet(RuleGroups(result.r.config_data)[g]) : g \in 1..4}
    /\ result.r.custom_errors = Len(RuleGroups(result.r.config_data)[1]) + Len(RuleGroups(result.r.config_data)[2]) + Len(RuleGroups(result.r.config_data)[3]) + Len(RuleGroups(result.r.config_data)[4])

\* a validation in which two rule groups report errors
C27_Witness ==
  /\ Validated
  /\ Cardinality({g \in 1..4 : RuleGroups(result.r.config_data)[g] # <<>>}) >= 2
  /\ result.r.custom_errors >= 2

----------------------------------------------------------------------------
(* Properties of the two transition passes *)

\* apply_auto_fixes with the LM pass ahead of the no-turbulence pass
SwappedFixes(d) == EulerMarkerPass(InletPass(TransitionPass(LmPass(IncEulerPass(dict_copy(d))))))
TransFixes(fixes) == {i \in 1..Len(fixes) : fixes[i].path = Key("KIND_TRANS_MODEL")}
BothPassesApply(d) == TransitionPass(dict_copy(d)).fixes # <<>> /\ LmPass(dict_copy(d)).fixes # <<>>

\* C28: the no-turbulence pass and the axisymmetric LM pass commute: run in the other
\* order they give the document and the number of fix records apply_auto_fixes
\* returned, and a call records at most one fix of KIND_TRANS_MODEL.
C28_TransitionPassesCommute ==
  Applied =>
    /\ SwappedFixes(given).cfg = fixed.cfg
    /\ Len(SwappedFixes(given).fixes) = Len(fixed.fixes)
    /\ Cardinality(TransFixes(fixed.fixes)) <= 1

\* a call on a document to which both passes apply
C28_Witness ==
  /\ Applied
  /\ BothPassesApply(given)
  /\ Cardinality(TransFixes(fixed.fixes)) = 1
  /\ Get(fixed.cfg, Key("KIND_TRANS_MODEL"), PyNone) = W("NONE")

----------------------------------------------------------------------------
(* Properties of the rules after auto-fix *)

\* the (type, path) pairs perform_custom_validations reports on a document
Reported(d) == {<<e.type, e.path>> : e \in ToSet(perform_custom_validations(d).errors)}
RulesReturn(d) == ~perform_custom_validations(d).raised
RansPair == <<"rans_requires_turbulence", Key("KIND_TURB_MODEL")>>

\* C29: auto-fix introduces no semantic error: every (type, path) the rules report on
\* the document apply_auto_fixes returned, they report on the given document too, and
\* rans_requires_turbulence is reported after the fix exactly when it was before.
C29_NoErrorIntroduced ==
  Applied /\ RulesReturn(given) /\ RulesReturn(fixed.cfg) =>
    /\ Reported(fixed.cfg) \subseteq Reported(given)
    /\ RansPair \in Reported(fixed.cfg) <=> RansPair \in Reported(given)

\* a call that applied a fix and left an error the rules reported before
C29_Witness ==
  /\ Applied /\ RulesReturn(given) /\ RulesReturn(fixed.cfg)
  /\ fixed.fixes # <<>>
  /\ Reported(fixed.cfg) # {}
  /\ Reported(fixed.cfg) # Reported(given)
  /\ RansPair \in Reported(fixed.cfg)

----------------------------------------------------------------------------
(* Properties of the line loop of convert_cfg_to_json *)

Read == parsed.called /\ parsed.by = "convert_cfg_to_json" /\ ~parsed.raised
Continued(line) == endswith(strip(line), "\\")
IsComment(line) == startswith(strip(line), "%")
Unmarked(line) == SubSeq(strip(line), 1, Len(strip(line)) - 1)
RECURSIVE RetainsMarker(_)
RetainsMarker(v) ==
  \/ isinstance(v, "str") /\ endswith(v.s, "\\")
  \/ isinstance(v, "list") /\ \E i \in 1..Len(v.l) : RetainsMarker(v.l[i])

\* C25: a line ending with the continuation marker is read joined, by one space, with
\* the next line that is not a comment, and no value of the document read keeps the
\* marker at its end.
C25_ContinuationLines ==
  Read =>
    /\ Continued(file.lines[1]) => \A i \in 1..Len(parsed.doc) : ~RetainsMarker(parsed.doc[i].v)
    /\ Len(file.lines) = 2 /\ Continued(file.lines[1]) /\ ~IsComment(file.lines[1]) /\ ~IsComment(file.lines[2])
         => parsed.doc = convert_cfg_to_json(<<Unmarked(file.lines[1]) \o <<" ">> \o strip(file.lines[2])>>).doc

----------------------------------------------------------------------------
(* Properties of the documents the two readers of .cfg files return *)

\* a line without its comment
Code(l) == IF Contains(strip(l), "%") THEN strip(SubSeq(strip(l), 1, IndexOf(strip(l), "%") - 1)) ELSE strip(l)
\* KEY = VALUE with a key that is not empty
EntryLine(l) == Contains(Code(l), "=") /\ SplitKeyValue(Code(l)).key # <<>>
ValueRead(text) == IF parsed.by = "cfg_to_json_dict" THEN parse_value(text) ELSE parse_config_value(text)
EmptyKeys(d) == {i \in 1..Len(d) : d[i].k = <<>>}

\* C26: a document read from a .cfg file has no empty key: a line whose key is empty
\* after trimming, or that has no '=', contributes nothing, and any other KEY = VALUE
\* line contributes its key with the value parsed.
C26_NoEmptyKey ==
  parsed.called /\ ~parsed.raised =>
    /\ EmptyKeys(parsed.doc) = {}
    /\ Len(file.lines) = 1 /\ ~EntryLine(file.lines[1]) => parsed.doc = <<>>
    /\ Len(file.lines) = 1 /\ EntryLine(file.lines[1])
         => parsed.doc = <<[k |-> SplitKeyValue(Code(file.lines[1])).key, v |-> ValueRead(SplitKeyValue(Code(file.lines[1])).value)]>>

----------------------------------------------------------------------------
(* The preflight validation of the solver tab *)

MaxRunEntries == 3   \* entries set in the working document before a run
MaxRuns == 2         \* preflight validations and solver starts of a session

\* the entries set in the application before a run, in the order they are set
RunCandidates ==
  << [k |-> Key("SOLVER"), vs |-> {W("EULER"), W("INC_EULER"), W("RANS"), W("INC_NAVIER_STOKES")}],
     [k |-> Key("KIND_TURB_MODEL"), vs |-> {W("SA"), W("NONE")}],
     [k |-> Key("KIND_TRANS_MODEL"), vs |-> {W("LM")}],
     [k |-> Key("AXISYMMETRIC"), vs |-> {PyBool(TRUE)}],
     [k |-> Key("INC_DENSITY_MODEL"), vs |-> {W("VARIABLE")}],
     [k |-> Key("MESH_FILENAME"), vs |-> {W("mesh")}] >>
RunRank(k) == CHOOSE i \in 1..Len(RunCandidates) : RunCandidates[i].k = k

\* solver.py: what follows the validation, [app, jsonData, file, result, given]
Persist(s, r, loaded) ==
  LET fixes == r.applied_fixes
      fixed_cfg == r.config_data
      saved == save_json_cfg_file(s.app, Update(s.jsonData, fixed_cfg), s.file)
  IN IF fixes # <<>>
     THEN [app |-> saved.app, jsonData |-> saved.jsonData, file |-> saved.file, result |-> r, given |-> loaded]
     ELSE [app |-> s.app, jsonData |-> s.jsonData, file |-> s.file, result |-> r, given |-> loaded]

\* solver.py: the preflight on the case as saved, s = [app, jsonData, file]
Preflight(s, v, auto_fix) ==
  Persist(s, validate_config_file(v.schema_enabled, v.validator, s.file, auto_fix), LoadConfig(s.file).doc)

\* solver.py: run_preflight_validation, with v the validator it builds, SU2ConfigValidator()
run_preflight_validation(a, d, f, v, auto_fix) == Preflight(save_json_cfg_file(a, d, f), v, auto_fix)

\* solver.py: the handler of the solver button; the solver runs if the mesh can be saved
su2_play(a, d, f, v, auto_fix) ==
  LET off == [a EXCEPT !.solver_running = FALSE]
      p == Preflight(save_json_cfg_file(a, d, f), v, auto_fix)
  IN IF a.solver_running \/ a.case_name = "" \/ d = <<>>
     THEN [app |-> off, jsonData |-> d, file |-> f, result |-> NoResult.r, given |-> <<>>, ran |-> FALSE]
     ELSE [app |-> [p.app EXCEPT !.solver_running = Has(p.jsonData, Key("MESH_FILENAME"))],
           jsonData |-> p.jsonData, file |-> p.file, result |-> p.result, given |-> p.given, ran |-> TRUE]

InitRun ==
  /\ \E env_flag \in {"", "1"} :
       \E a \in {Arguments("None", "None", env_flag, TRUE, FALSE, [valid |-> TRUE, schema |-> RepoSchema], TRUE)} :
         /\ construction = a
         /\ schema_enabled = New(a).schema_enabled
         /\ validator = New(a).validator
  /\ app \in {NoCase, Case(<<>>, FALSE, Comment), Case(Boundaries, FALSE, Comment), Case(Boundaries, TRUE, Comment)}
  /\ jsonData = <<>>
  /\ file = MissingFile
  /\ result = NoResult
  /\ parsed = NoParsed
  /\ given = <<>>
  /\ config_data = <<>>
  /\ fixed = NoFixed
  /\ calls = 0
  /\ threads = NoThreads
  /\ parser = NoToken

\* an entry of the working document is set in the application
SetEntry ==
  /\ calls = 0
  /\ Len(jsonData) < MaxRunEntries
  /\ \E i \in 1..Len(RunCandidates) :
       /\ IF jsonData = <<>> THEN TRUE ELSE RunRank(jsonData[Len(jsonData)].k) < i
       /\ \E v \in RunCandidates[i].vs :
            jsonData' = Append(jsonData, [k |-> RunCandidates[i].k, v |-> v])
  /\ UNCHANGED <<threads, parser, construction, schema_enabled, validator, file, app, result, parsed, given, config_data, fixed, calls>>

RunPreflightValidation ==
  /\ calls < MaxRuns
  /\ \E auto_fix \in BOOLEAN :
       \E p \in {run_preflight_validation(app, jsonData, file, New(construction), auto_fix)} :
         /\ app' = p.app /\ jsonData' = p.jsonData /\ file' = p.file
         /\ result' = Returned(p.result, auto_fix) /\ given' = p.given
  /\ calls' = calls + 1
  /\ UNCHANGED <<threads, parser, construction, schema_enabled, validator, parsed, config_data, fixed>>

Su2Play ==
  /\ calls < MaxRuns
  /\ \E auto_fix \in BOOLEAN :
       \E p \in {su2_play(app, jsonData, file, New(construction), auto_fix)} :
         /\ app' = p.app /\ jsonData' = p.jsonData /\ file' = p.file /\ given' = p.given
         /\ result' = IF p.ran THEN Returned(p.result, auto_fix) ELSE NoResult
  /\ calls' = calls + 1
  /\ UNCHANGED <<threads, parser, construction, schema_enabled, validator, parsed, config_data, fixed>>

NextRun == SetEntry \/ RunPreflightValidation \/ Su2Play

SpecRun == InitRun /\ [][NextRun]_vars

----------------------------------------------------------------------------
(* Properties of the preflight validation *)

\* a preflight that applied fixes and saved the case again
Persisted == result.called /\ result.auto_fix /\ result.r.has_config_data /\ result.r.applied_fixes # <<>>
\* the case's .cfg file as a reader of the validator finds it
OnDisk == LoadConfig(file).doc
FixedKeys == {result.r.applied_fixes[i].path : i \in 1..Len(result.r.applied_fixes)} \cap Keys(result.r.config_data)
RemovedKeys == Keys(given) \ Keys(result.r.config_data)
\* the (type, path) pairs of the errors the fixes made go away
FixedErrors == Reported(given) \ Reported(result.r.config_data)
Revalidated == validate_config_file(schema_enabled, validator, file, FALSE)

\* C30: after a preflight with auto-fix that applied a fix, the working document and
\* the .cfg file saved again agree with the fixed document on the keys the fixes
\* touched: the values set are there, the keys removed are not, and validating the
\* saved file again reports none of the errors that were fixed.
C30_FixesPersisted ==
  Persisted =>
    /\ \A k \in FixedKeys :
         /\ Has(jsonData, k) /\ Get(jsonData, k, PyNone) = Get(result.r.config_data, k, PyNone)
         /\ Has(OnDisk, k) /\ Get(OnDisk, k, PyNone) = Get(result.r.config_data, k, PyNone)
    /\ \A k \in RemovedKeys : ~Has(jsonData, k) /\ ~Has(OnDisk, k)
    /\ {<<e.type, e.path>> : e \in ToSet(Revalidated.errors)} \cap FixedErrors = {}

----------------------------------------------------------------------------
(* Concurrent calls of validate_config_file on one validator *)

\* the configuration files the threads validate
ThreadDocs ==
  { <<>>,
    <<[k |-> Key("SOLVER"), v |-> W("RANS")]>>,
    <<[k |-> Key("SOLVER"), v |-> W("INC_EULER")]>>,
    <<[k |-> Key("SOLVER"), v |-> W("EULER")], [k |-> Key("MARKER_EULER"), v |-> W("euler1")]>>,
    <<[k |-> Key("KIND_TRANS_MODEL"), v |-> W("LM")], [k |-> Key("MARKER_HEATFLUX"), v |-> PyInt(S("5"))]>> }
ThreadFiles == {JsonFile(d) : d \in ThreadDocs} \cup {MissingFile}

\* the fields of the validator a call reads
Self == [schema_enabled |-> schema_enabled, validator |-> validator]

\* the schema pass of validate_config_file: it reads both fields and assigns neither
SchemaPassSwitchOff(self, d) ==
  LET issues == IF self.schema_enabled /\ self.validator.loaded THEN iter_errors(self.validator.schema, d) ELSE <<>>
  IN [validation_errors |-> issues, self |-> IF issues # <<>> THEN [self EXCEPT !.schema_enabled = FALSE] ELSE self]

SchemaPass(self, d) ==
  LET issues == IF self.schema_enabled /\ self.validator.loaded THEN iter_errors(self.validator.schema, d) ELSE <<>>
  IN [validation_errors |-> issues, self |-> self]

\* a thread calls validate_config_file(path, auto_fix)
Call(t) ==
  /\ threads[t].pc = "idle"
  /\ \E f \in ThreadFiles, auto_fix \in BOOLEAN :
       threads' = [threads EXCEPT ![t] = [NoCall EXCEPT !.pc = "load", !.file = f, !.auto_fix = auto_fix]]
  /\ UNCHANGED <<construction, schema_enabled, validator, file, jsonData, app, result, parsed, given, config_data, fixed, calls, parser>>

\* the file is read; an exception ends the call in the except branch
Load(t) ==
  /\ threads[t].pc = "load"
  /\ \E loaded \in {LoadConfig(threads[t].file)} :
       threads' = [threads EXCEPT ![t] =
                     IF loaded.raised \/ threads[t].file.kind = "json_list"
                     THEN [@ EXCEPT !.pc = "done", !.result = ProcessingError]
                     ELSE [@ EXCEPT !.pc = "schema", !.loaded = loaded]]
  /\ UNCHANGED <<construction, schema_enabled, validator, file, jsonData, app, result, parsed, given, config_data, fixed, calls, parser>>

SchemaStep(t) ==
  /\ threads[t].pc = "schema"
  /\ \E r \in {SchemaPass(Self, threads[t].loaded.doc)} :
       /\ threads' = [threads EXCEPT ![t] = [@ EXCEPT !.pc = "custom", !.validation_errors = r.validation_errors]]
       /\ schema_enabled' = r.self.schema_enabled
       /\ validator' = r.self.validator
  /\ UNCHANGED <<construction, file, jsonData, app, result, parsed, given, config_data, fixed, calls, parser>>

CustomStep(t) ==
  /\ threads[t].pc = "custom"
  /\ \E r \in {perform_custom_validations(threads[t].loaded.doc)} :
       threads' = [threads EXCEPT ![t] = [@ EXCEPT !.pc = "guidance", !.custom = r]]
  /\ UNCHANGED <<construction, schema_enabled, validator, file, jsonData, app, result, parsed, given, config_data, fixed, calls, parser>>

GuidanceStep(t) ==
  /\ threads[t].pc = "guidance"
  /\ \E r \in {perform_guidance_warnings(threads[t].loaded.doc)} :
       threads' = [threads EXCEPT ![t] = [@ EXCEPT !.pc = "finish", !.guidance_warnings = r]]
  /\ UNCHANGED <<construction, schema_enabled, validator, file, jsonData, app, result, parsed, given, config_data, fixed, calls, parser>>

\* the fixes when asked for, and the result
Finish(t) ==
  /\ threads[t].pc = "finish"
  /\ \E r \in {AfterChecks(threads[t].validation_errors, threads[t].custom, threads[t].guidance_warnings, threads[t].loaded.doc, threads[t].auto_fix)} :
       threads' = [threads EXCEPT ![t] = [@ EXCEPT !.pc = "done", !.result = r]]
  /\ UNCHANGED <<construction, schema_enabled, validator, file, jsonData, app, result, parsed, given, config_data, fixed, calls, parser>>

\* the caller takes the result
Return(t) ==
  /\ threads[t].pc = "done"
  /\ threads' = [threads EXCEPT ![t] = NoCall]
  /\ UNCHANGED <<construction, schema_enabled, validator, file, jsonData, app, result, parsed, given, config_data, fixed, calls, parser>>

NextThreads ==
  \E t \in 1..NumThreads :
    Call(t) \/ Load(t) \/ SchemaStep(t) \/ CustomStep(t) \/ GuidanceStep(t) \/ Finish(t) \/ Return(t)

SpecThreads == Init /\ [][NextThreads]_vars

----------------------------------------------------------------------------
(* Properties of concurrent calls *)

Done(t) == threads[t].pc = "done"
\* what the call of thread t returns when it runs alone on the validator as constructed
Alone(t) == validate_config_file(New(construction).schema_enabled, New(construction).validator, threads[t].file, threads[t].auto_fix)

\* C21: calls of validate_config_file interleaved on one validator each return what
\* they return alone, and none changes schema_enabled, the validator object or its
\* schema.
C21_CallsIndependent ==
  /\ \A t \in 1..NumThreads : Done(t) => threads[t].result = Alone(t)
  /\ schema_enabled = New(construction).schema_enabled
  /\ validator = New(construction).validator

\* a call that returned schema issues while the other call, on another document, was
\* past its own schema pass
C21_Witness ==
  /\ Done(1) /\ threads[1].validation_errors # <<>> /\ threads[1].result.has_config_data
  /\ threads[2].pc \in {"custom", "guidance", "finish"}
  /\ threads[2].file # threads[1].file
  /\ threads[2].validation_errors # <<>>


====
